---- MODULE Spec2Model ----
(***************************************************************************)
(* Transfer orchestration engine of svelte-firebase-upload:                *)
(* FirebaseUploadManager (src/src/lib/upload-manager.svelte.ts) with the   *)
(* retry decision of NetworkManager and the clamping of ConfigValidator.   *)
(*                                                                         *)
(* The manager runs on one JavaScript thread.  An action of this module is *)
(* one run-to-completion step of that thread: a public method up to its    *)
(* first real suspension, a timer firing, or a callback of a transfer      *)
(* handle.  The transfer handle (firebase UploadTask), getDownloadURL and  *)
(* the connectivity probe are the environment.                             *)
(***************************************************************************)
EXTENDS Integers, Sequences, FiniteSets, TLC

(* ---------------------------- bounds ----------------------------------- *)
MaxItems == 3
FewItems == 2
MaxConcurrent == 2
FileSize == 1
MaxLoops == 1
MaxAttemptsArg == 6

(* ------------------------ program constants ---------------------------- *)
MinConcurrentUploads == 1
MaxConcurrentUploadsLimit == 50
DefaultConcurrentUploads == 5
MinRetryAttempts == 0
MaxRetryAttempts == 10
RetryAttempts == 3
BaseDelay == 1000
MaxDelay == 30000
BackoffMultiplier == 2
\* BandwidthManager: default cap in Mbps, check interval in ms, samples kept
DefaultMaxBandwidthMbps == 10
ThrottleInterval == 100
BandwidthHistoryLimit == 10

ItemIds == 1..MaxItems

(* Error messages a transfer, getDownloadURL or _startUpload can produce.  *)
(* One representative per class of NetworkManager.shouldRetry, plus the    *)
(* message _startUpload throws itself and the one of a cancelled task.     *)
StartUploadErrorMessage == "Invalid upload item or storage not configured"
NonRetryableMessages == {"PERMISSION_DENIED"}
RetryableMessages == {"NETWORK_ERROR"}
TransferErrorMessages == NonRetryableMessages \cup RetryableMessages \cup {"storage/canceled"}
NoError == "null"
NoURL == "undefined"
DownloadURLs == {"https://store/object"}

Qualities == {"excellent", "good", "poor", "unknown"}

\* File.size of a submitted file: an empty file, or one of FileSize bytes
FileSizes == {0, FileSize}

\* the number 0 / 0 evaluates to; no byte count equals it
NaN == -1

\* FILE_SIZE_THRESHOLDS.SMALL in the unit of FileSize: a file of FileSize
\* bytes is small, one of LargeFileSize bytes is not
SmallThreshold == FileSize + 1
LargeFileSize == SmallThreshold

\* addFiles hands sets of more than this many files to the memory manager
LargeSetThreshold == 100
\* FirebaseUploadManager.MEMORY_BATCH_SIZE
MEMORY_BATCH_SIZE == 100
\* the batches the memory manager is given in a run
MaxBatches == 4
\* files given to the UploadResumer, its chunk size, the calls made on it
MaxResumerFiles == 2
ResumerChunkSize == 2
MaxResumerCalls == 4
\* largest file size and chunk size createChunks is tried with
MaxFileBytes == 9
MaxChunkBytes == 6
\* BandwidthManager: requests queued, samples reported, pending check
\* timers, calls of adjustBandwidth
MaxThrottleRequests == 2
MaxSamples == 2
MaxCheckTimers == 2
MaxAdjustCalls == 8

\* plugins that can be registered, and the highest priority given to one
MaxPlugins == 2
MaxPriority == 1
\* numbers of files of the large sets submitted
LargeSetSizes == {LargeSetThreshold + 1, LargeSetThreshold + 2}

\* values of options.priority
Priorities == {0, 1}

VARIABLES
    queue,                  \* this.queue: sequence of item ids
    active,                 \* keys of this.active
    completed,              \* keys of this.completed
    failed,                 \* keys of this.failed, in insertion order
    paused,                 \* this.paused
    uploadTasks,            \* keys of this._uploadTasks
    items,                  \* the UploadItem objects, by id
    isProcessing,
    isPaused,
    maxConcurrentUploads,   \* this.config.maxConcurrentUploads
    storage,                \* this.storage !== null
    isOnline,               \* this._networkManager.isOnline
    successCount,
    failureCount,
    loopsSlot,              \* _processQueue instances sleeping at line 938
    loopsBatch,             \* _processQueue instances sleeping at line 957
    flow,                   \* per item: what the environment still owes it
    handle,                 \* per item: the signals its transfer handle got
    totalFiles,             \* this.totalFiles
    totalSize,              \* this.totalSize
    created,                \* history: items created; ids are handed out in order
    batches,                \* MemoryManager.batches, in insertion order
    pendingTotalFiles,      \* MemoryManager.pendingTotalFiles
    pendingTotalSize,       \* MemoryManager.pendingTotalSize
    autoStart,              \* this.config.autoStart
    enableSmartScheduling,  \* this.config.enableSmartScheduling
    deleteRequests,         \* ids whose stored object deleteObject was called on
    live,                   \* history: submitted and not removed by the caller
    call,                   \* a call of a pure function and its result
    resumer,                \* the UploadResumer: store, state objects, suspended calls
    throttle,               \* the BandwidthManager
    dispatch                \* the PluginSystem: registry and the dispatch in progress

\* the variables of the upload manager
managerVars ==
    <<queue, active, completed, failed, paused, uploadTasks, items,
      isProcessing, isPaused, maxConcurrentUploads, storage, isOnline,
      successCount, failureCount, loopsSlot, loopsBatch, flow, handle,
      totalFiles, totalSize, created, batches, pendingTotalFiles,
      pendingTotalSize, autoStart, enableSmartScheduling, deleteRequests,
      live>>

vars == <<managerVars, call, resumer, throttle, dispatch>>

(* ------------------------------ helpers -------------------------------- *)
Min(a, b) == IF a < b THEN a ELSE b

Max(a, b) == IF a > b THEN a ELSE b

RECURSIVE SumSeq(_)
SumSeq(q) == IF q = <<>> THEN 0 ELSE Head(q) + SumSeq(Tail(q))

Range(s) == {s[k] : k \in 1..Len(s)}

\* Array.prototype.filter on the queue
RECURSIVE FilterOut(_, _)
FilterOut(s, x) ==
    IF s = <<>> THEN <<>>
    ELSE IF Head(s) = x THEN FilterOut(Tail(s), x)
    ELSE <<Head(s)>> \o FilterOut(Tail(s), x)

\* the item of a file of size bytes, submitted without options
NewItem(size) ==
    [status |-> "queued", attempts |-> 0, error |-> NoError,
     uploadedBytes |-> 0, totalBytes |-> size, downloadURL |-> NoURL,
     priority |-> 0]

NewHandle == [suspended |-> FALSE, cancels |-> 0]

\* the saturating count of sleeping loop instances
Sat(n) == Min(n, MaxLoops)

(* ------------------ NetworkManager.shouldRetry ------------------------- *)
nonRetryableErrors == {"PERMISSION_DENIED", "INVALID_ARGUMENT", "NOT_FOUND",
                       "ALREADY_EXISTS", "QUOTA_EXCEEDED", "UNAUTHENTICATED"}
retryableErrors == {"NETWORK_ERROR", "TIMEOUT", "INTERNAL", "UNAVAILABLE",
                    "CANCELLED", "ABORTED"}

\* the entries of the two lists that error.message.toUpperCase() includes,
\* for the messages of this module
MessageTokens(msg) ==
    CASE msg = "PERMISSION_DENIED" -> {"PERMISSION_DENIED"}
      [] msg = "NETWORK_ERROR" -> {"NETWORK_ERROR"}
      [] msg = "quota_exceeded after timeout" -> {"QUOTA_EXCEEDED", "TIMEOUT"}
      [] msg = "Request aborted" -> {"ABORTED"}
      [] OTHER -> {}

IsNonRetryable(msg) == MessageTokens(msg) \cap nonRetryableErrors # {}
IsRetryable(msg) == MessageTokens(msg) \cap retryableErrors # {}

\* faulty variant: an unclassified error is always retried
ShouldRetryIgnoresQuality(attempts, msg, online, quality) ==
    IF attempts >= RetryAttempts THEN FALSE
    ELSE IF ~online THEN FALSE
    ELSE IF msg = NoError THEN TRUE
    ELSE IF IsNonRetryable(msg) THEN FALSE
    ELSE TRUE

\* msg = NoError: the call without an error argument
shouldRetry(attempts, msg, online, quality) ==
    IF attempts >= RetryAttempts THEN FALSE
    ELSE IF ~online THEN FALSE
    ELSE IF msg = NoError THEN TRUE
    ELSE IF IsNonRetryable(msg) THEN FALSE
    ELSE IF ~IsRetryable(msg) THEN quality \in {"excellent", "good"}
    ELSE TRUE

(* ------------------ NetworkManager.calculateRetryDelay ----------------- *)
RECURSIVE Pow(_, _)
Pow(b, n) == IF n = 0 THEN 1 ELSE b * Pow(b, n - 1)

\* ten times the factor the network quality multiplies the delay by
QualityFactorTenths(quality) ==
    CASE quality = "poor" -> 20
      [] quality = "good" -> 12
      [] quality = "excellent" -> 8
      [] OTHER -> 10

\* faulty variant: the quality factor divides the delay of later attempts
RetryDelayShrinks(attempts, quality, jitterAmount) ==
    Min((BaseDelay * QualityFactorTenths(quality)) \div Pow(BackoffMultiplier, attempts)
            + 10 * jitterAmount,
        10 * MaxDelay)

\* the delay in tenths of a millisecond; jitterAmount is Math.random() * 1000
\* (0 when jitter is off)
calculateRetryDelay(attempts, quality, jitterAmount) ==
    Min(BaseDelay * Pow(BackoffMultiplier, attempts) * QualityFactorTenths(quality)
            + 10 * jitterAmount,
        10 * MaxDelay)

(* ------------- calls of the NetworkManager functions ------------------- *)
ShouldRetryMessages ==
    {"PERMISSION_DENIED", "NETWORK_ERROR", "quota_exceeded after timeout",
     "Request aborted", "storage/canceled", StartUploadErrorMessage, NoError}

JitterAmounts == {0, 500, 999}

NoCall == [fn |-> "none", attempts |-> 0, msg |-> NoError, online |-> TRUE,
           quality |-> "unknown", jitterAmount |-> 0, done |-> FALSE,
           retry |-> FALSE, delay |-> 0, delayNext |-> 0]

NetworkCalls ==
    {[NoCall EXCEPT !.fn = "shouldRetry", !.attempts = a, !.msg = m,
                    !.online = o, !.quality = q] :
        a \in 0..MaxAttemptsArg, m \in ShouldRetryMessages, o \in BOOLEAN,
        q \in Qualities}
    \cup
    {[NoCall EXCEPT !.fn = "calculateRetryDelay", !.attempts = a,
                    !.quality = q, !.jitterAmount = j] :
        a \in 0..MaxAttemptsArg, q \in Qualities, j \in JitterAmounts}

(* --------------------------- UploadResumer ----------------------------- *)
\* UploadResumer.createChunks(fileSize), chunkSize being this.chunkSize
RECURSIVE ChunksFrom(_, _, _, _)
ChunksFrom(start, index, fileSize, chunkSize) ==
    IF start < fileSize
    THEN <<[index |-> index, start |-> start,
            end |-> Min(start + chunkSize, fileSize), uploaded |-> FALSE]>>
         \o ChunksFrom(start + chunkSize, index + 1, fileSize, chunkSize)
    ELSE <<>>

\* faulty variant: the last chunk is as long as the others
RECURSIVE CreateChunksFullLast(_, _)
CreateChunksFullLast(fileSize, chunkSize) ==
    IF fileSize <= 0 THEN <<>>
    ELSE LET n == (fileSize + chunkSize - 1) \div chunkSize
         IN [k \in 1..n |-> [index |-> k - 1, start |-> (k - 1) * chunkSize,
                              end |-> k * chunkSize, uploaded |-> FALSE]]

createChunks(fileSize, chunkSize) == ChunksFrom(0, 0, fileSize, chunkSize)

ChunkCalls ==
    {[fn |-> "createChunks", fileSize |-> fs, chunkSize |-> cs,
      done |-> FALSE, chunks |-> <<>>] :
        fs \in 0..MaxFileBytes, cs \in 1..MaxChunkBytes}

ResumerFiles == 1..MaxResumerFiles
ResumerFileSizes == {ResumerChunkSize, ResumerChunkSize + 1}

\* positions in state.chunks of the largest file
ResumerChunks ==
    1..Len(createChunks(ResumerChunkSize + 1, ResumerChunkSize))

\* no ResumableUploadState
NoState == [fileId |-> 0, fileSize |-> 0, uploadedBytes |-> 0, chunks |-> <<>>]

\* store: the array under localStorage[storageKey]; states: the state
\* objects createResumableUpload returned; pending: the calls suspended at
\* an await, each with what it had read; calls: the calls made so far;
\* removed: history, the fileIds removeUploadState was called for
ResumerInit ==
    [store |-> <<>>,
     states |-> [f \in ResumerFiles |-> NoState],
     pending |-> {},
     calls |-> 0,
     removed |-> {}]

\* a call suspended at an await
Suspended(r, op, f, k, read, todo) ==
    [id |-> r.calls + 1, op |-> op, file |-> f, chunk |-> k, read |-> read,
     todo |-> todo]

Suspend(r, op, f, k, read, todo) ==
    [r EXCEPT !.pending = @ \cup {Suspended(r, op, f, k, read, todo)},
              !.calls = @ + 1]

\* getAllUploadStates: JSON.parse of the stored array, a copy
getAllUploadStates(r) == r.store

isUploadComplete(state) == state.uploadedBytes >= state.fileSize

\* saveUploadState after its await: upsert into the array it had read, then
\* localStorage.setItem
Upsert(states, state) ==
    IF \E k \in 1..Len(states) : states[k].fileId = state.fileId
    THEN [k \in 1..Len(states) |->
             IF states[k].fileId = state.fileId THEN state ELSE states[k]]
    ELSE Append(states, state)

\* faulty variant: the array is never extended
UpsertNeverAppends(states, state) ==
    [k \in 1..Len(states) |->
        IF states[k].fileId = state.fileId THEN state ELSE states[k]]

\* removeUploadState after its await
Without(states, fileId) ==
    SelectSeq(states, LAMBDA st : st.fileId # fileId)

\* saveUploadState up to its await: getAllUploadStates has run
saveUploadState(r, f) ==
    Suspend(r, "save", f, 0, getAllUploadStates(r), <<>>)

removeUploadState(r, f) ==
    Suspend([r EXCEPT !.removed = @ \cup {f}],
            "remove", f, 0, getAllUploadStates(r), <<>>)

ResumerStep(r) ==
    /\ resumer' = r
    /\ UNCHANGED <<managerVars, call, throttle, dispatch>>

CreateResumableUpload(f, size) ==
    /\ resumer.calls < MaxResumerCalls
    /\ resumer.states[f] = NoState
    /\ ResumerStep(saveUploadState(
           [resumer EXCEPT !.states[f] =
               [fileId |-> f, fileSize |-> size, uploadedBytes |-> 0,
                chunks |-> createChunks(size, ResumerChunkSize)]], f))

\* uploadChunk up to the await of uploadFunction
UploadChunk(f, k) ==
    /\ resumer.calls < MaxResumerCalls
    /\ resumer.states[f] # NoState
    /\ k \in 1..Len(resumer.states[f].chunks)
    /\ ResumerStep(Suspend(resumer, "uploadChunk", f, k, <<>>, <<>>))

\* uploadFunction resolved: the chunk is marked, the bytes are added and
\* saveUploadState is entered
UploadFunctionResolves(c) ==
    /\ c \in resumer.pending
    /\ c.op = "uploadChunk"
    /\ LET chunk == resumer.states[c.file].chunks[c.chunk]
           r1 == [resumer EXCEPT
                    !.pending = @ \ {c},
                    !.states[c.file].chunks[c.chunk].uploaded = TRUE,
                    !.states[c.file].uploadedBytes = @ + (chunk.end - chunk.start)]
       IN ResumerStep([r1 EXCEPT
                         !.pending = @ \cup {[c EXCEPT !.op = "save",
                                                       !.read = getAllUploadStates(r1)]}])

\* uploadFunction rejected: uploadChunk returns success: false
UploadFunctionRejects(c) ==
    /\ c \in resumer.pending
    /\ c.op = "uploadChunk"
    /\ ResumerStep([resumer EXCEPT !.pending = @ \ {c}])

SaveContinues(c) ==
    /\ c \in resumer.pending
    /\ c.op = "save"
    /\ ResumerStep([resumer EXCEPT
                      !.pending = @ \ {c},
                      !.store = Upsert(c.read, resumer.states[c.file])])

RemoveUploadState(f) ==
    /\ resumer.calls < MaxResumerCalls
    /\ resumer.states[f] # NoState
    /\ ResumerStep(removeUploadState(resumer, f))

RemoveContinues(c) ==
    /\ c \in resumer.pending
    /\ c.op = "remove"
    /\ LET r1 == [resumer EXCEPT !.pending = @ \ {c},
                                 !.store = Without(c.read, c.file)]
       IN ResumerStep(
            IF c.todo = <<>> THEN r1
            ELSE [r1 EXCEPT
                    !.removed = @ \cup {Head(c.todo)},
                    !.pending = @ \cup {[c EXCEPT !.file = Head(c.todo),
                                                  !.read = getAllUploadStates(r1),
                                                  !.todo = Tail(c.todo)]}])

\* cleanupCompletedUploads up to its await of getAllUploadStates
CleanupCompletedUploads ==
    /\ resumer.calls < MaxResumerCalls
    /\ ResumerStep(Suspend(resumer, "cleanup", 0, 0, getAllUploadStates(resumer),
                           <<>>))

\* cleanupCompletedUploads after that await: the completed states are
\* removed one after the other
CleanupContinues(c) ==
    /\ c \in resumer.pending
    /\ c.op = "cleanup"
    /\ LET completedStates == SelectSeq(c.read, isUploadComplete)
           ids == [k \in 1..Len(completedStates) |-> completedStates[k].fileId]
           r1 == [resumer EXCEPT !.pending = @ \ {c}]
       IN ResumerStep(
            IF ids = <<>> THEN r1
            ELSE [r1 EXCEPT
                    !.removed = @ \cup {Head(ids)},
                    !.pending = @ \cup {[c EXCEPT !.op = "remove",
                                                  !.file = Head(ids),
                                                  !.read = getAllUploadStates(r1),
                                                  !.todo = Tail(ids)]}])

\* canResume(file) for the file of state object f: the stored states it
\* can return
canResume(r, f) ==
    {st \in Range(getAllUploadStates(r)) :
        /\ st.fileId = f
        /\ st.fileSize = r.states[f].fileSize
        /\ ~isUploadComplete(st)}

(* -------------------------- BandwidthManager --------------------------- *)
\* Bandwidths (the cap, the samples, throttleInfo.bytesPerSecond) are
\* counted in thousandths of a Mbps, times in ms. The products with 1.1
\* and 0.9 are rounded down to a thousandth.
CapUnit == 1000
OriginalCap == DefaultMaxBandwidthMbps * CapUnit

\* rates reported through updateBandwidthUsage: idle, half the original cap,
\* four times the original cap
BandwidthSamples == {0, OriginalCap \div 2, 4 * OriginalCap}

\* bytesToUpload of a throttled request, in the same unit
ThrottleBytes == OriginalCap \div 20

\* Date.now() - throttleInfo.lastUpdate when a check timer fires: the
\* interval, or more when the timer is late
TimerTimeDiffs == {ThrottleInterval, 2 * ThrottleInterval}
\* the same for the check run by _startThrottling itself
StartTimeDiffs == {0, ThrottleInterval, 10 * ThrottleInterval}

\* uploadQueue: the queued requests (ids); released: the requests whose
\* promise resolved; checkTimers: pending setTimeout(processQueue);
\* subtractions: pending timers of _processUpload; samples, adjusts, asked:
\* the calls made so far
ThrottleManager(adaptive) ==
    [isThrottling |-> FALSE,
     uploadQueue |-> <<>>,
     released |-> {},
     currentBandwidth |-> 0,
     bandwidthHistory |-> <<>>,
     bytesPerSecond |-> 0,
     maxBandwidth |-> OriginalCap,
     adaptiveBandwidth |-> adaptive,
     checkTimers |-> 0,
     subtractions |-> 0,
     samples |-> 0,
     adjusts |-> 0,
     asked |-> 0]

ThrottleInit == ThrottleManager(TRUE)

\* _processUpload(bytes)
_processUpload(t, bytes) ==
    [t EXCEPT !.bytesPerSecond = @ + bytes,
              !.subtractions = @ + 1]

\* processQueue inside _startThrottling, timeDiff ms after lastUpdate
processQueue(t, timeDiff) ==
    IF ~t.isThrottling THEN t
    ELSE LET bytesAllowed == (t.maxBandwidth * timeDiff) \div 1000
             t1 == IF t.bytesPerSecond <= bytesAllowed /\ Len(t.uploadQueue) > 0
                   THEN [_processUpload(t, ThrottleBytes) EXCEPT
                            !.uploadQueue = Tail(@),
                            !.released = @ \cup {Head(t.uploadQueue)}]
                   ELSE t
         IN [t1 EXCEPT !.checkTimers = @ + 1]

\* faulty variant: the check never releases a request
ProcessQueueHolds(t, timeDiff) ==
    IF ~t.isThrottling THEN t
    ELSE [t EXCEPT !.checkTimers = @ + 1]

\* getAverageBandwidth() < maxBytesPerSecond * 0.8, and > ... * 0.95
AverageBelow(t, percent) ==
    LET n == Len(t.bandwidthHistory)
        sum == SumSeq(t.bandwidthHistory)
    IN IF n = 0 THEN 0 < t.maxBandwidth * percent
       ELSE sum * 100 < t.maxBandwidth * percent * n

AverageAbove(t, percent) ==
    LET n == Len(t.bandwidthHistory)
        sum == SumSeq(t.bandwidthHistory)
    IN IF n = 0 THEN FALSE
       ELSE sum * 100 > t.maxBandwidth * percent * n

\* faulty variant: the cap is never changed
AdjustBandwidthKeeps(t) == t

adjustBandwidth(t) ==
    IF ~t.adaptiveBandwidth THEN t
    ELSE IF AverageBelow(t, 80)
    THEN [t EXCEPT !.maxBandwidth = Min((@ * 11) \div 10, @ * 2)]
    ELSE IF AverageAbove(t, 95)
    THEN [t EXCEPT !.maxBandwidth = Max((@ * 9) \div 10, @ \div 2)]
    ELSE t

ThrottleStep(t) ==
    /\ throttle' = t
    /\ UNCHANGED <<managerVars, call, resumer, dispatch>>

\* throttleUpload(bytesToUpload)
ThrottleUpload ==
    /\ throttle.asked < MaxThrottleRequests
    /\ \E timeDiff \in StartTimeDiffs :
        LET t1 == IF ~throttle.isThrottling
                  THEN processQueue([throttle EXCEPT !.isThrottling = TRUE],
                                    timeDiff)
                  ELSE throttle
        IN /\ t1.checkTimers <= MaxCheckTimers
           /\ ThrottleStep([t1 EXCEPT !.uploadQueue = Append(@, t1.asked + 1),
                                      !.asked = @ + 1])

\* updateBandwidthUsage(bytesUploaded, timeMs), the rate being the sample
UpdateBandwidthUsage(sample) ==
    /\ throttle.samples < MaxSamples
    /\ LET pushed == Append(throttle.bandwidthHistory, sample)
       IN ThrottleStep([throttle EXCEPT
             !.currentBandwidth = sample,
             !.bandwidthHistory = IF Len(pushed) > BandwidthHistoryLimit
                                  THEN Tail(pushed) ELSE pushed,
             !.bytesPerSecond = sample,
             !.samples = @ + 1])

AdjustBandwidth ==
    /\ throttle.adjusts < MaxAdjustCalls
    /\ ThrottleStep([adjustBandwidth(throttle) EXCEPT !.adjusts = @ + 1])

\* BandwidthManager.pause
PauseThrottle ==
    /\ throttle.isThrottling
    /\ ThrottleStep([throttle EXCEPT !.isThrottling = FALSE])

\* BandwidthManager.resume
ResumeThrottle ==
    /\ ~throttle.isThrottling
    /\ \E timeDiff \in StartTimeDiffs :
        LET t1 == processQueue([throttle EXCEPT !.isThrottling = TRUE], timeDiff)
        IN /\ t1.checkTimers <= MaxCheckTimers
           /\ ThrottleStep(t1)

\* a setTimeout(processQueue, throttleInterval) fires
CheckTimerFires ==
    /\ throttle.checkTimers > 0
    /\ \E timeDiff \in TimerTimeDiffs :
        ThrottleStep(processQueue([throttle EXCEPT !.checkTimers = @ - 1],
                                  timeDiff))

\* the timer of _processUpload fires after a second
SubtractTimerFires ==
    /\ throttle.subtractions > 0
    /\ ThrottleStep([throttle EXCEPT
          !.subtractions = @ - 1,
          !.bytesPerSecond = Max(0, @ - ThrottleBytes)])

(* ---------------------------- PluginSystem ----------------------------- *)
\* Two classes are named PluginSystem. The one in plugin-system.svelte.ts,
\* which the manager imports, awaits each hook directly; the one in
\* network-manager.svelte.ts wraps each hook in _withTimeout. The field
\* timeBoxed of dispatch tells which of the two the object is.
Plugins == 1..MaxPlugins

\* config.priority of a registered plugin
PluginPriorities == 0..MaxPriority

\* What the hook of a plugin does when it is called:
\*   "none"       the plugin does not implement the hook
\*   "async"      it returns a promise that resolves with a new value
\*   "sync"       it returns a new value, not a promise
\*   "undefined"  it returns a promise that resolves with undefined
\*   "throws"     it throws, or returns a promise that rejects
\*   "hangs"      it returns a promise that never settles
HookKinds == {"none", "async", "sync", "undefined", "throws", "hangs"}

NoPlugin == [registered |-> FALSE, enabled |-> FALSE, priority |-> 0,
             hook |-> "none", onError |-> FALSE]

\* the values executePipeline is started with
InitialValues == {0, 7}

\* the value the hook of plugin p makes of value v
Transform(p, v) == 10 * v + p

NoRun == [mode |-> "none", sorted |-> <<>>, pos |-> 0, awaiting |-> "none",
          initialValue |-> 0, result |-> 0, invoked |-> <<>>,
          received |-> <<>>, errors |-> <<>>, outcome |-> "none"]

\* order is the insertion order of the plugins map and of the listeners
PluginSystemOf(timeBoxed) ==
    [timeBoxed |-> timeBoxed,
     plugins   |-> [p \in Plugins |-> NoPlugin],
     order     |-> <<>>,
     run       |-> NoRun]

DispatchInit == PluginSystemOf(FALSE)

\* Array.prototype.sort with the comparator b.priority - a.priority: the
\* higher priority first, equal priorities in the order they had
RECURSIVE SortByPriority(_, _, _)
SortByPriority(seq, plugins, priority) ==
    IF priority < 0 THEN <<>>
    ELSE SelectSeq(seq, LAMBDA p : plugins[p].priority = priority)
         \o SortByPriority(seq, plugins, priority - 1)

\* the list the loop of emitEvent / executePipeline walks: the listeners of
\* the event (plugin-system.svelte.ts), the enabled plugins
\* (network-manager.svelte.ts)
SortedListeners(d) ==
    SortByPriority(
        IF d.timeBoxed
        THEN SelectSeq(d.order, LAMBDA p : d.plugins[p].enabled)
        ELSE SelectSeq(d.order, LAMBDA p : d.plugins[p].hook # "none"),
        d.plugins, MaxPriority)

\* the test the loop makes before it calls the hook of p
InvokesHook(d, p) ==
    IF d.timeBoxed
    THEN d.plugins[p].hook # "none"
    ELSE d.plugins[p].registered /\ d.plugins[p].enabled

\* the loop from its head to the next await, or to the return
RECURSIVE ContinueLoop(_)
ContinueLoop(d) ==
    IF d.run.pos > Len(d.run.sorted)
    THEN [d EXCEPT !.run.awaiting = "none", !.run.outcome = "resolved"]
    ELSE IF InvokesHook(d, d.run.sorted[d.run.pos])
    THEN [d EXCEPT !.run.awaiting = "hook",
                   !.run.invoked = Append(@, d.run.sorted[d.run.pos]),
                   !.run.received = Append(@, d.run.result)]
    ELSE ContinueLoop([d EXCEPT !.run.pos = @ + 1])

NextListener(d) == ContinueLoop([d EXCEPT !.run.pos = @ + 1])

\* faulty variant: the error of a hook leaves the dispatch
HookFailsRethrows(d, p) ==
    [d EXCEPT !.run.awaiting = "none", !.run.outcome = "rejected"]

\* the catch block around the hook of p
HookFails(d, p) ==
    IF d.plugins[p].onError
    THEN [d EXCEPT !.run.awaiting = "onError", !.run.errors = Append(@, p)]
    ELSE NextListener(d)

\* What the await of the hook yields. In executePipeline of
\* network-manager.svelte.ts the operation handed to _withTimeout is the bare
\* call of the hook, and _withTimeout calls .then on what it returns: a hook
\* that returns a value that is no promise makes that a TypeError.
HookYields(d, p) ==
    CASE d.plugins[p].hook = "async" -> "value"
      [] d.plugins[p].hook = "sync" ->
            IF d.timeBoxed /\ d.run.mode = "executePipeline"
            THEN "error" ELSE "value"
      [] d.plugins[p].hook = "undefined" -> "undefined"
      [] OTHER -> "error"

\* if (pluginResult !== undefined) result = pluginResult
HookResult(d, p) ==
    [d EXCEPT !.run.result = Transform(p, @)]

\* the code after the await of the hook of p, once the hook has settled
hookSettled(d, p) ==
    CASE HookYields(d, p) = "error" -> HookFails(d, p)
      [] HookYields(d, p) = "value" /\ d.run.mode = "executePipeline" ->
            NextListener(HookResult(d, p))
      [] OTHER -> NextListener(d)

\* the timer of _withTimeout rejects the promise emitEvent awaits
withTimeoutExpires(d, p) == HookFails(d, p)

DispatchStep(d) ==
    /\ dispatch' = d
    /\ UNCHANGED <<managerVars, call, resumer, throttle>>

CurrentPlugin == dispatch.run.sorted[dispatch.run.pos]

\* registerPlugin(plugin, {priority}); it throws when the name is taken.
\* The plugin gets the default enabled: true; setPluginEnabled disables it.
RegisterPlugin(p) ==
    /\ dispatch.run.mode = "none"
    /\ ~dispatch.plugins[p].registered
    /\ \E priority \in PluginPriorities, hook \in HookKinds, onError \in BOOLEAN :
          DispatchStep([dispatch EXCEPT
              !.plugins[p] = [registered |-> TRUE, enabled |-> TRUE,
                              priority |-> priority, hook |-> hook,
                              onError |-> onError],
              !.order = Append(@, p)])

\* setPluginEnabled(pluginName, enabled)
SetPluginEnabled(p) ==
    /\ dispatch.run.mode = "none"
    /\ dispatch.plugins[p].registered
    /\ \E enabled \in BOOLEAN :
          /\ enabled # dispatch.plugins[p].enabled
          /\ DispatchStep([dispatch EXCEPT !.plugins[p].enabled = enabled])

StartRun(mode, value) ==
    ContinueLoop([dispatch EXCEPT
        !.run = [NoRun EXCEPT !.mode = mode,
                              !.sorted = SortedListeners(dispatch),
                              !.pos = 1,
                              !.initialValue = value,
                              !.result = value,
                              !.outcome = "pending"]])

\* emitEvent(eventType, ...args), to its first await
EmitEvent ==
    /\ dispatch.run.mode = "none"
    /\ DispatchStep(StartRun("emitEvent", 0))

\* executePipeline(eventType, initialValue, ...args), to its first await
ExecutePipeline ==
    /\ dispatch.run.mode = "none"
    /\ \E value \in InitialValues :
          DispatchStep(StartRun("executePipeline", value))

\* the hook that was called settles
HookSettles ==
    /\ dispatch.run.awaiting = "hook"
    /\ dispatch.plugins[CurrentPlugin].hook # "hangs"
    /\ DispatchStep(hookSettled(dispatch, CurrentPlugin))

\* the timeout of _withTimeout elapses before the hook settles; a hook that
\* settles is taken to settle within the timeout
HookTimesOut ==
    /\ dispatch.run.awaiting = "hook"
    /\ dispatch.timeBoxed
    /\ dispatch.plugins[CurrentPlugin].hook = "hangs"
    /\ DispatchStep(withTimeoutExpires(dispatch, CurrentPlugin))

\* the onError hook of the failing plugin settles
OnErrorSettles ==
    /\ dispatch.run.awaiting = "onError"
    /\ DispatchStep(NextListener(dispatch))

DispatchContinues == HookSettles \/ HookTimesOut \/ OnErrorSettles

(* ------------------ ConfigValidator.validateNumber --------------------- *)
\* faulty variant: an out-of-range number is kept as it is
ValidateNumberNoClamp(value, min, max) == value

\* the clamping of a finite number
validateNumber(value, min, max) ==
    IF value < min THEN min
    ELSE IF value > max THEN max
    ELSE value

\* Values a caller can pass for an option. isNaN is isNaN(Number(value)),
\* finite is Number.isFinite(Number(value)), num the number when finite.
Undefined == [type |-> "undefined", isNaN |-> TRUE, finite |-> FALSE, num |-> 0,
     bool |-> FALSE]
Num(v) == [type |-> "number", isNaN |-> FALSE, finite |-> TRUE, num |-> v,
     bool |-> FALSE]
NaNValue == [type |-> "number", isNaN |-> TRUE, finite |-> FALSE, num |-> 0,
     bool |-> FALSE]
InfinityValue == [type |-> "number", isNaN |-> FALSE, finite |-> FALSE, num |-> 0,
     bool |-> FALSE]
NumericString(v) == [type |-> "string", isNaN |-> FALSE, finite |-> TRUE, num |-> v,
     bool |-> FALSE]
WordString == [type |-> "string", isNaN |-> TRUE, finite |-> FALSE, num |-> 0,
     bool |-> FALSE]
InfinityString == [type |-> "string", isNaN |-> FALSE, finite |-> FALSE, num |-> 0,
     bool |-> FALSE]
Bool(b) == [type |-> "boolean", isNaN |-> FALSE, finite |-> TRUE, num |-> 0,
     bool |-> b]
NullValue == [type |-> "object", isNaN |-> FALSE, finite |-> TRUE, num |-> 0,
     bool |-> FALSE]

\* the numbers tried: around the bounds of maxConcurrentUploads and of
\* retryAttempts
OptionNumbers ==
    {MinRetryAttempts - 1, MinRetryAttempts, MinConcurrentUploads,
     DefaultConcurrentUploads, MaxRetryAttempts, MaxRetryAttempts + 1,
     MaxConcurrentUploadsLimit, MaxConcurrentUploadsLimit + 1}

NumberOptionValues ==
    {Undefined, NaNValue, InfinityValue, WordString, InfinityString, NullValue,
     Bool(TRUE)}
    \cup {Num(v) : v \in OptionNumbers}
    \cup {NumericString(v) : v \in {MinRetryAttempts - 1, DefaultConcurrentUploads}}

BooleanOptionValues == {Undefined, Bool(TRUE), Bool(FALSE), WordString}

\* validateNumber with its errors and warnings, tagged with the field
validateNumberResult(fieldName, value, min, max, default) ==
    IF value.type # "number" /\ ~(value.type = "string" /\ ~value.isNaN)
    THEN [value |-> default, errors |-> {<<fieldName, "must be a number">>},
          warnings |-> {}]
    ELSE LET converted == IF value.type = "string"
                          THEN {<<fieldName, "should be a number">>} ELSE {}
         IN IF ~value.finite
            THEN [value |-> default,
                  errors |-> {<<fieldName, "must be a finite number">>},
                  warnings |-> converted]
            ELSE [value |-> validateNumber(value.num, min, max),
                  errors |-> {},
                  warnings |-> converted \cup
                      (IF value.num < min
                       THEN {<<fieldName, "below minimum">>}
                       ELSE IF value.num > max
                       THEN {<<fieldName, "exceeds maximum">>}
                       ELSE {})]

(* ------------------ ConfigValidator.validateConfig --------------------- *)
\* options maxConcurrentUploads, retryAttempts and autoStart, the others
\* left undefined; with the defaults of those performCrossValidation adds
\* no warning
validateConfig(options) ==
    LET mcu == IF options.maxConcurrentUploads # Undefined
               THEN validateNumberResult("maxConcurrentUploads",
                        options.maxConcurrentUploads, MinConcurrentUploads,
                        MaxConcurrentUploadsLimit, DefaultConcurrentUploads)
               ELSE [value |-> DefaultConcurrentUploads, errors |-> {},
                     warnings |-> {}]
        ra == IF options.retryAttempts # Undefined
              THEN validateNumberResult("retryAttempts", options.retryAttempts,
                       MinRetryAttempts, MaxRetryAttempts, RetryAttempts)
              ELSE [value |-> RetryAttempts, errors |-> {}, warnings |-> {}]
        autoStartBad == /\ options.autoStart # Undefined
                        /\ options.autoStart.type # "boolean"
        as == IF options.autoStart # Undefined /\ ~autoStartBad
              THEN options.autoStart.bool ELSE FALSE
        errors == mcu.errors \cup ra.errors \cup
                  (IF autoStartBad THEN {<<"autoStart", "must be a boolean">>}
                   ELSE {})
    IN [valid |-> errors = {},
        errors |-> errors,
        warnings |-> mcu.warnings \cup ra.warnings,
        sanitized |-> [maxConcurrentUploads |-> mcu.value,
                       retryAttempts |-> ra.value,
                       autoStart |-> as,
                       enableSmartScheduling |-> FALSE]]

ConstructCalls ==
    {[fn |-> "construct",
      options |-> [maxConcurrentUploads |-> m, retryAttempts |-> r,
                   autoStart |-> a],
      done |-> FALSE, thrown |-> FALSE, errors |-> {}, warnings |-> {},
      config |-> <<>>] :
        m \in NumberOptionValues, r \in NumberOptionValues,
        a \in BooleanOptionValues}

(* ---------------- the manager's state as one record -------------------- *)
Cur == [queue |-> queue, active |-> active, completed |-> completed,
        failed |-> failed, paused |-> paused, uploadTasks |-> uploadTasks,
        items |-> items, isProcessing |-> isProcessing, isPaused |-> isPaused,
        maxConcurrentUploads |-> maxConcurrentUploads, storage |-> storage,
        isOnline |-> isOnline, successCount |-> successCount,
        failureCount |-> failureCount, loopsSlot |-> loopsSlot,
        loopsBatch |-> loopsBatch, flow |-> flow, handle |-> handle,
        totalFiles |-> totalFiles, totalSize |-> totalSize,
        created |-> created, batches |-> batches,
        pendingTotalFiles |-> pendingTotalFiles,
        pendingTotalSize |-> pendingTotalSize, autoStart |-> autoStart,
        enableSmartScheduling |-> enableSmartScheduling,
        deleteRequests |-> deleteRequests]

CommitManager(s) ==
    /\ queue' = s.queue
    /\ active' = s.active
    /\ completed' = s.completed
    /\ failed' = s.failed
    /\ paused' = s.paused
    /\ uploadTasks' = s.uploadTasks
    /\ items' = s.items
    /\ isProcessing' = s.isProcessing
    /\ isPaused' = s.isPaused
    /\ maxConcurrentUploads' = s.maxConcurrentUploads
    /\ storage' = s.storage
    /\ isOnline' = s.isOnline
    /\ successCount' = s.successCount
    /\ failureCount' = s.failureCount
    /\ loopsSlot' = s.loopsSlot
    /\ loopsBatch' = s.loopsBatch
    /\ flow' = s.flow
    /\ handle' = s.handle
    /\ totalFiles' = s.totalFiles
    /\ totalSize' = s.totalSize
    /\ created' = s.created
    /\ batches' = s.batches
    /\ pendingTotalFiles' = s.pendingTotalFiles
    /\ pendingTotalSize' = s.pendingTotalSize
    /\ autoStart' = s.autoStart
    /\ enableSmartScheduling' = s.enableSmartScheduling
    /\ deleteRequests' = s.deleteRequests

Commit(s) ==
    /\ CommitManager(s)
    /\ call' = call
    /\ resumer' = resumer
    /\ throttle' = throttle
    /\ dispatch' = dispatch

(* ---------------- FirebaseUploadManager._handleUploadError ------------- *)
\* quality is the link quality navigator.connection reports at the call

\* faulty variant: the item is left in the active map when a retry is scheduled
HandleUploadErrorKeepsActive(s, i, msg, quality) ==
    LET attempts == s.items[i].attempts + 1
        it == [s.items[i] EXCEPT !.status = "failed", !.error = msg,
                                 !.attempts = attempts]
        retry == shouldRetry(attempts, msg, s.isOnline, quality)
    IN [s EXCEPT !.items[i] = it,
                 !.flow[i] = IF retry THEN "retryWait" ELSE "none",
                 !.handle[i] = NewHandle,
                 !.failed = IF retry \/ i \in Range(@) THEN @ ELSE Append(@, i),
                 !.failureCount = IF retry THEN @ ELSE @ + 1,
                 !.active = IF retry THEN @ ELSE @ \ {i},
                 !.uploadTasks = @ \ {i}]

\* faulty variant: the attempt counter is left to _startUpload alone
HandleUploadErrorNoAttempt(s, i, msg, quality) ==
    LET attempts == s.items[i].attempts
        it == [s.items[i] EXCEPT !.status = "failed", !.error = msg]
        retry == shouldRetry(attempts, msg, s.isOnline, quality)
    IN [s EXCEPT !.items[i] = it,
                 !.flow[i] = IF retry THEN "retryWait" ELSE "none",
                 !.handle[i] = NewHandle,
                 !.failed = IF retry \/ i \in Range(@) THEN @ ELSE Append(@, i),
                 !.failureCount = IF retry THEN @ ELSE @ + 1,
                 !.active = @ \ {i},
                 !.uploadTasks = @ \ {i}]

_handleUploadError(s, i, msg, quality) ==
    LET attempts == s.items[i].attempts + 1
        it == [s.items[i] EXCEPT !.status = "failed", !.error = msg,
                                 !.attempts = attempts]
        retry == shouldRetry(attempts, msg, s.isOnline, quality)
    IN [s EXCEPT !.items[i] = it,
                 !.flow[i] = IF retry THEN "retryWait" ELSE "none",
                 !.handle[i] = NewHandle,
                 !.failed = IF retry \/ i \in Range(@) THEN @ ELSE Append(@, i),
                 !.failureCount = IF retry THEN @ ELSE @ + 1,
                 !.active = @ \ {i},
                 !.uploadTasks = @ \ {i}]

(* ---------------- FirebaseUploadManager._startUpload ------------------- *)
_startUpload(s, i, quality) ==
    IF ~s.storage
    THEN _handleUploadError(s, i, StartUploadErrorMessage, quality)
    ELSE [s EXCEPT !.items[i].status = "uploading",
                   !.items[i].attempts = @ + 1,
                   !.active = @ \cup {i},
                   !.uploadTasks = @ \cup {i},
                   !.handle[i] = NewHandle,
                   !.flow[i] = "transfer"]

\* items.map(item => this._startUpload(item)): no suspension in between
RECURSIVE StartAll(_, _, _)
StartAll(s, ids, quality) ==
    IF ids = <<>> THEN s
    ELSE StartAll(_startUpload(s, Head(ids), quality), Tail(ids), quality)

(* ---------------- FirebaseUploadManager._processQueue ------------------ *)
\* One call, or one wake-up of a sleeping instance, up to its next sleep
\* or its return.
_processQueue(s, quality) ==
    IF s.isProcessing /\ Len(s.queue) > 0
    THEN LET availableSlots == s.maxConcurrentUploads - Cardinality(s.active)
         IN IF availableSlots <= 0
            THEN [s EXCEPT !.loopsSlot = Sat(@ + 1)]
            ELSE LET itemsToProcess == Min(availableSlots, Len(s.queue))
                     taken == SubSeq(s.queue, 1, itemsToProcess)
                     rest == SubSeq(s.queue, itemsToProcess + 1, Len(s.queue))
                     s1 == StartAll([s EXCEPT !.queue = rest], taken, quality)
                 IN [s1 EXCEPT !.loopsBatch = Sat(@ + 1)]
    ELSE IF Len(s.queue) = 0 /\ s.active = {}
         THEN [s EXCEPT !.isProcessing = FALSE]
         ELSE s

(* ------------------------------- Init ---------------------------------- *)
ManagerInit ==
    /\ queue = <<>>
    /\ active = {}
    /\ completed = {}
    /\ failed = <<>>
    /\ paused = {}
    /\ uploadTasks = {}
    /\ items = [i \in ItemIds |-> NewItem(FileSize)]
    /\ isProcessing = FALSE
    /\ isPaused = FALSE
    /\ maxConcurrentUploads \in MinConcurrentUploads..MaxConcurrent
    /\ storage \in BOOLEAN
    /\ isOnline = TRUE
    /\ successCount = 0
    /\ failureCount = 0
    /\ loopsSlot = 0
    /\ loopsBatch = 0
    /\ flow = [i \in ItemIds |-> "none"]
    /\ handle = [i \in ItemIds |-> NewHandle]
    /\ totalFiles = 0
    /\ totalSize = 0
    /\ created = 0
    /\ batches = <<>>
    /\ pendingTotalFiles = 0
    /\ pendingTotalSize = 0
    /\ autoStart \in BOOLEAN
    /\ enableSmartScheduling \in BOOLEAN
    /\ deleteRequests = {}
    /\ live = {}

Init ==
    /\ ManagerInit
    /\ call = NoCall
    /\ resumer = ResumerInit
    /\ dispatch = DispatchInit
    /\ throttle = ThrottleInit

(* ------------------- FirebaseUploadManager.start ----------------------- *)
start(s, quality) ==
    IF s.isProcessing THEN s
    ELSE _processQueue([s EXCEPT !.isProcessing = TRUE, !.isPaused = FALSE],
                       quality)

Start ==
    \E quality \in Qualities :
        /\ Commit(start(Cur, quality))
        /\ UNCHANGED live

(* ------------------- FirebaseUploadManager.addFiles -------------------- *)
\* the path for sets of at most 100 files; n new files of size bytes each,
\* with options.priority = priority (0 when the option is not given)
RECURSIVE PushNew(_, _, _, _, _)
PushNew(s, first, n, size, priority) ==
    IF n = 0 THEN s
    ELSE PushNew([s EXCEPT !.queue = Append(@, first),
                           !.items[first] =
                               [NewItem(size) EXCEPT !.priority = priority],
                           !.totalFiles = @ + 1,
                           !.totalSize = @ + size,
                           !.created = @ + 1],
                 first + 1, n - 1, size, priority)

AddFilesWithPriority(n, size, priority) ==
    /\ created + n <= MaxItems
    /\ \E quality \in Qualities :
        LET s1 == PushNew(Cur, created + 1, n, size, priority)
            s2 == IF s1.autoStart /\ ~s1.isProcessing
                  THEN start(s1, quality) ELSE s1
        IN Commit(s2)
    /\ live' = live \cup (created + 1)..(created + n)

AddFiles(n, size) == AddFilesWithPriority(n, size, 0)

\* MemoryManager.addFilesLazy: the batches of n files, batchSize a piece
RECURSIVE NewBatches(_)
NewBatches(n) ==
    IF n <= 0 THEN <<>>
    ELSE <<[files |-> Min(n, MEMORY_BATCH_SIZE), processed |-> FALSE]>>
         \o NewBatches(n - MEMORY_BATCH_SIZE)

addFilesLazy(s, n, size) ==
    [s EXCEPT !.pendingTotalFiles = @ + n,
              !.pendingTotalSize = @ + n * size,
              !.batches = @ \o NewBatches(n)]

\* the path of addFiles for sets of more than 100 files: n files of size
\* bytes each
AddLargeSet(n, size) ==
    /\ n > LargeSetThreshold
    /\ Len(batches) + Len(NewBatches(n)) <= MaxBatches
    /\ \E quality \in Qualities :
        LET s1 == addFilesLazy(Cur, n, size)
            s2 == [s1 EXCEPT !.totalFiles = @ + s1.pendingTotalFiles,
                             !.totalSize = @ + s1.pendingTotalSize]
            s3 == IF s2.autoStart /\ ~s2.isProcessing
                  THEN start(s2, quality) ELSE s2
        IN Commit(s3)
    /\ UNCHANGED live

\* addFiles() of a caller that submits no more than FewItems files in all
AddFew(n, size) ==
    /\ created + n <= FewItems
    /\ AddFiles(n, size)

(* ------------------- FirebaseUploadManager.setStorage ------------------ *)
SetStorage ==
    /\ ~storage
    /\ Commit([Cur EXCEPT !.storage = TRUE])
    /\ UNCHANGED live

(* ------------------- FirebaseUploadManager.pause ----------------------- *)
\* task.pause() on every stored handle
\* faulty variant: the suspended handles are not recorded in this.paused
PauseForgetsIds(s) ==
    [s EXCEPT !.isPaused = TRUE,
              !.handle = [i \in ItemIds |->
                            IF i \in s.uploadTasks
                            THEN [@[i] EXCEPT !.suspended = TRUE] ELSE @[i]]]

pause(s) ==
    [s EXCEPT !.isPaused = TRUE,
              !.handle = [i \in ItemIds |->
                            IF i \in s.uploadTasks
                            THEN [@[i] EXCEPT !.suspended = TRUE] ELSE @[i]],
              !.paused = @ \cup s.uploadTasks]

Pause ==
    /\ Commit(pause(Cur))
    /\ UNCHANGED live

(* ------------------- FirebaseUploadManager.resume ---------------------- *)
resume(s, quality) ==
    _processQueue(
        [s EXCEPT !.isPaused = FALSE,
                  !.handle = [i \in ItemIds |->
                                IF i \in s.paused /\ i \in s.uploadTasks
                                THEN [@[i] EXCEPT !.suspended = FALSE] ELSE @[i]],
                  !.paused = {}],
        quality)

Resume ==
    \E quality \in Qualities :
        /\ Commit(resume(Cur, quality))
        /\ UNCHANGED live

(* ------------------- FirebaseUploadManager.stop ------------------------ *)
\* task.cancel() on a handle
Cancelled(h) ==
    [h EXCEPT !.cancels = Min(@ + 1, 2)]

\* faulty variant: stop() also empties the queue
StopClearsQueue(s) ==
    [s EXCEPT !.isProcessing = FALSE,
              !.isPaused = FALSE,
              !.handle = [i \in ItemIds |->
                            IF i \in s.uploadTasks THEN Cancelled(@[i]) ELSE @[i]],
              !.uploadTasks = {},
              !.active = {},
              !.paused = {},
              !.queue = <<>>]

\* faulty variant: stop() marks the items it drops as queued again
StopMarksQueued(s) ==
    [s EXCEPT !.isProcessing = FALSE,
              !.isPaused = FALSE,
              !.handle = [i \in ItemIds |->
                            IF i \in s.uploadTasks THEN Cancelled(@[i]) ELSE @[i]],
              !.items = [i \in ItemIds |->
                           IF i \in s.active
                           THEN [@[i] EXCEPT !.status = "queued"] ELSE @[i]],
              !.uploadTasks = {},
              !.active = {},
              !.paused = {}]

stop(s) ==
    [s EXCEPT !.isProcessing = FALSE,
              !.isPaused = FALSE,
              !.handle = [i \in ItemIds |->
                            IF i \in s.uploadTasks THEN Cancelled(@[i]) ELSE @[i]],
              !.uploadTasks = {},
              !.active = {},
              !.paused = {}]

Stop ==
    /\ Commit(stop(Cur))
    /\ UNCHANGED live

(* ------------------- FirebaseUploadManager.removeFile ------------------ *)
removeFile(s, i) ==
    LET s1 == [s EXCEPT !.queue = FilterOut(@, i)]
        s2 == IF i \in s1.active
              THEN [s1 EXCEPT !.handle[i] = IF i \in s1.uploadTasks
                                            THEN Cancelled(@) ELSE @,
                              !.active = @ \ {i},
                              !.uploadTasks = @ \ {i}]
              ELSE s1
        s3 == [s2 EXCEPT !.completed = @ \ {i},
                         !.failed = FilterOut(@, i),
                         !.paused = @ \ {i}]
        \* this.completed.get(fileId), read after this.completed.delete(fileId)
        completedItem == IF i \in s3.completed THEN <<s3.items[i]>> ELSE <<>>
    IN IF /\ completedItem # <<>>
          /\ completedItem[1].downloadURL \notin {NoURL, ""}
          /\ s3.storage
       THEN [s3 EXCEPT !.deleteRequests = @ \cup {i}]
       ELSE s3

RemoveFile(i) ==
    /\ i <= created
    /\ Commit(removeFile(Cur, i))
    /\ live' = live \ {i}

(* ------------------- FirebaseUploadManager.retryFailed ----------------- *)
RECURSIVE Requeue(_, _)
Requeue(s, ids) ==
    IF ids = <<>> THEN s
    ELSE LET i == Head(ids)
         IN Requeue([s EXCEPT !.items[i].status = "queued",
                              !.items[i].error = NoError,
                              !.items[i].attempts = 0,
                              !.queue = Append(@, i),
                              !.failed = FilterOut(@, i)],
                    Tail(ids))

\* faulty variant: the attempt counter is not reset
RECURSIVE RequeueKeepsAttempts(_, _)
RequeueKeepsAttempts(s, ids) ==
    IF ids = <<>> THEN s
    ELSE LET i == Head(ids)
         IN RequeueKeepsAttempts([s EXCEPT !.items[i].status = "queued",
                                           !.items[i].error = NoError,
                                           !.queue = Append(@, i),
                                           !.failed = FilterOut(@, i)],
                                 Tail(ids))

RetryFailedKeepsAttempts(s, quality) ==
    LET failedItems == s.failed
        s1 == RequeueKeepsAttempts(s, failedItems)
        s2 == [s1 EXCEPT !.failureCount = @ - Len(failedItems)]
    IN IF s2.isProcessing THEN _processQueue(s2, quality) ELSE s2

retryFailed(s, quality) ==
    LET failedItems == s.failed
        s1 == Requeue(s, failedItems)
        s2 == [s1 EXCEPT !.failureCount = @ - Len(failedItems)]
    IN IF s2.isProcessing THEN _processQueue(s2, quality) ELSE s2

RetryFailed ==
    \E quality \in Qualities :
        /\ Commit(retryFailed(Cur, quality))
        /\ UNCHANGED live

(* ------------- FirebaseUploadManager.clearCompleted / clearFailed ------ *)
\* clearCompleted first awaits the deletion of the stored artifacts, which
\* reads the completed map and writes nothing; the step modelled is the one
\* after that await, where the map and the counter are cleared.
clearCompleted(s) ==
    [s EXCEPT !.completed = {}, !.successCount = 0]

ClearCompleted ==
    /\ Commit(clearCompleted(Cur))
    /\ live' = live \ completed

clearFailed(s) ==
    [s EXCEPT !.failed = <<>>, !.failureCount = 0]

ClearFailed ==
    /\ Commit(clearFailed(Cur))
    /\ live' = live \ Range(failed)

(* ------------------- FirebaseUploadManager.updateConfig ---------------- *)
\* field maxConcurrentUploads: validateRuntimeChange clamps, then
\* _updateConfigField stores; _applyConfigurationChange only warns
updateConfig(s, value) ==
    [s EXCEPT !.maxConcurrentUploads =
        validateNumber(value, MinConcurrentUploads, MaxConcurrentUploadsLimit)]

UpdateConfig(value) ==
    /\ Commit(updateConfig(Cur, value))
    /\ UNCHANGED live

(* ------------------- FirebaseUploadManager.setSmartScheduling ---------- *)
\* the fields ConfigValidator.DEFAULT_CONSTRAINTS has an entry for
ConstrainedFields ==
    {"maxConcurrentUploads", "chunkSize", "retryAttempts", "retryDelay",
     "maxBandwidthMbps", "maxMemoryItems"}

\* validateRuntimeChange(field, value, config).valid for a boolean value:
\* a field without a constraint is not configurable at runtime, and the
\* value of a field with one goes through validateNumber, which gives an
\* error for a boolean
validateRuntimeChange(field, value) ==
    [valid |-> field \in ConstrainedFields /\ value.type \in {"number", "string"}]

\* updateConfig('enableSmartScheduling', enabled); the field is stored
\* only when the change is valid
setSmartScheduling(s, enabled) ==
    IF validateRuntimeChange("enableSmartScheduling", Bool(enabled)).valid
    THEN [s EXCEPT !.enableSmartScheduling = enabled]
    ELSE s

\* setSmartScheduling(enabled) throws when updateConfig reports no success
SetSmartScheduling(enabled) ==
    /\ CommitManager(setSmartScheduling(Cur, enabled))
    /\ call' = [fn |-> "setSmartScheduling", enabled |-> enabled,
                thrown |-> ~validateRuntimeChange("enableSmartScheduling",
                                                   Bool(enabled)).valid]
    /\ UNCHANGED <<live, resumer, throttle, dispatch>>

(* ------------------- a sleeping _processQueue wakes up ----------------- *)
LoopWakeSlot ==
    /\ loopsSlot > 0
    /\ \E quality \in Qualities :
        Commit(_processQueue([Cur EXCEPT !.loopsSlot = @ - 1], quality))
    /\ UNCHANGED live

LoopWakeBatch ==
    /\ loopsBatch > 0
    /\ \E quality \in Qualities :
        Commit(_processQueue([Cur EXCEPT !.loopsBatch = @ - 1], quality))
    /\ UNCHANGED live

(* ------------------- FirebaseUploadManager._updateProgress ------------- *)
\* (snapshot.bytesTransferred / snapshot.totalBytes) * 100 of the progress
\* observer; the snapshot of an empty file gives 0 / 0
snapshotProgress(bytesTransferred, totalBytes) ==
    IF totalBytes = 0 THEN NaN ELSE (bytesTransferred * 100) \div totalBytes

_updateProgress(s, i, progress) ==
    IF i \in s.active
    THEN [s EXCEPT !.items[i].uploadedBytes =
                      IF progress = NaN THEN NaN
                      ELSE (progress * s.items[i].totalBytes) \div 100]
    ELSE s

\* state_changed snapshot of a running transfer
TransferProgress(i, bytes) ==
    /\ flow[i] = "transfer"
    /\ ~handle[i].suspended
    /\ handle[i].cancels = 0
    /\ bytes <= items[i].totalBytes
    /\ LET s1 == _updateProgress(Cur, i, snapshotProgress(bytes, items[i].totalBytes))
       IN /\ s1.items # items
          /\ Commit(s1)
    /\ UNCHANGED live

\* the error observer of the transfer
TransferError(i, msg, quality) ==
    /\ flow[i] = "transfer"
    /\ IF handle[i].cancels > 0
       THEN msg = "storage/canceled"
       ELSE msg \in NonRetryableMessages \cup RetryableMessages
    /\ Commit(_handleUploadError(Cur, i, msg, quality))
    /\ UNCHANGED live

(* ------------------- FirebaseUploadManager._handleUploadComplete ------- *)
\* The transfer succeeds: the final snapshot goes to the progress observer,
\* then the completion observer starts _handleUploadComplete, which awaits
\* getDownloadURL.  A transfer that was told to cancel may still succeed.
TransferComplete(i) ==
    /\ flow[i] = "transfer"
    /\ ~handle[i].suspended
    /\ storage
    /\ Commit([_updateProgress(Cur, i, snapshotProgress(items[i].totalBytes,
                                                        items[i].totalBytes))
                  EXCEPT !.flow[i] = "finalizing", !.handle[i] = NewHandle])
    /\ UNCHANGED live

\* faulty variant: the handle of the completed item stays in _uploadTasks
HandleUploadCompleteKeepsTask(s, i, url, quality) ==
    _processQueue(
        [s EXCEPT !.items[i].status = "completed",
                  !.items[i].downloadURL = url,
                  !.completed = @ \cup {i},
                  !.successCount = @ + 1,
                  !.active = @ \ {i},
                  !.flow[i] = "none"],
        quality)

_handleUploadCompleteResolved(s, i, url, quality) ==
    _processQueue(
        [s EXCEPT !.items[i].status = "completed",
                  !.items[i].downloadURL = url,
                  !.completed = @ \cup {i},
                  !.successCount = @ + 1,
                  !.active = @ \ {i},
                  !.uploadTasks = @ \ {i},
                  !.flow[i] = "none"],
        quality)

DownloadURLResolved(i) ==
    /\ flow[i] = "finalizing"
    /\ \E url \in DownloadURLs, quality \in Qualities :
        Commit(_handleUploadCompleteResolved(Cur, i, url, quality))
    /\ UNCHANGED live

DownloadURLRejected(i, msg, quality) ==
    /\ flow[i] = "finalizing"
    /\ msg \in NonRetryableMessages \cup RetryableMessages
    /\ Commit(_handleUploadError(Cur, i, msg, quality))
    /\ UNCHANGED live

(* ------------- the retry timer of _handleUploadError fires ------------- *)
\* faulty variant: the item is put back at the tail of the queue
RetryTimerPushesBack(s, i, quality) ==
    _processQueue(
        [s EXCEPT !.items[i].status = "queued",
                  !.queue = Append(@, i),
                  !.flow[i] = "none"],
        quality)

retryTimer(s, i, quality) ==
    _processQueue(
        [s EXCEPT !.items[i].status = "queued",
                  !.queue = <<i>> \o @,
                  !.flow[i] = "none"],
        quality)

RetryTimerFire(i) ==
    /\ flow[i] = "retryWait"
    /\ \E quality \in Qualities : Commit(retryTimer(Cur, i, quality))
    /\ UNCHANGED live

(* ------------------- FirebaseUploadManager.destroy --------------------- *)
\* this.pluginSystem = null
NullPluginSystem == [PluginSystemOf(FALSE) EXCEPT !.run.mode = "null"]

\* the message of the TypeError ref(null, path) throws
NullStorageMessage == "Cannot read properties of null"

\* _cleanupAllStorageFiles: deleteObject for every item of the completed and
\* failed maps (the active map was emptied by stop())
_cleanupAllStorageFiles(s) ==
    IF s.storage
    THEN [s EXCEPT !.deleteRequests = @ \cup s.completed \cup Range(s.failed)]
    ELSE s

\* destroy() to its end. _clearAllTimers clears the registered timers: the
\* batch delay of _processQueue and the two health intervals. The
\* slot-wait delay of _processQueue and the retry delay of
\* _handleUploadError are bare setTimeout calls and stay armed, and the
\* observers of the cancelled transfers stay attached.
destroy(s) ==
    [_cleanupAllStorageFiles(stop(s)) EXCEPT
        !.loopsBatch = 0,
        !.batches = <<>>,
        !.queue = <<>>,
        !.active = {},
        !.completed = {},
        !.failed = <<>>,
        !.paused = {},
        !.uploadTasks = {},
        !.storage = FALSE]

Destroy ==
    /\ dispatch # NullPluginSystem
    /\ CommitManager(destroy(Cur))
    /\ dispatch' = NullPluginSystem
    /\ UNCHANGED <<live, call, resumer, throttle>>

\* The transfer succeeds after destroy(): _handleUploadComplete calls
\* ref(this.storage, item.path) with this.storage null, which throws inside
\* its try block.
TransferCompleteNoStorage(i, quality) ==
    /\ flow[i] = "transfer"
    /\ ~handle[i].suspended
    /\ ~storage
    /\ Commit(_handleUploadError(Cur, i, NullStorageMessage, quality))
    /\ UNCHANGED live

(* ------------- connectivity transitions (NetworkManager) --------------- *)
GoOffline ==
    /\ isOnline
    /\ Commit(pause([Cur EXCEPT !.isOnline = FALSE]))
    /\ UNCHANGED live

GoOnline ==
    /\ ~isOnline
    /\ \E quality \in Qualities :
        Commit(resume([Cur EXCEPT !.isOnline = TRUE], quality))
    /\ UNCHANGED live

(* ------------------------- specifications ------------------------------ *)
\* The caller's operations on the queue and the callbacks of the transfers,
\* the download-URL requests and the timers.
CoreNext ==
    \/ \E n \in 1..FewItems : AddFew(n, FileSize)
    \/ SetStorage
    \/ Start
    \/ Stop
    \/ \E i \in ItemIds : RemoveFile(i)
    \/ RetryFailed
    \/ ClearCompleted
    \/ ClearFailed
    \/ LoopWakeSlot
    \/ LoopWakeBatch
    \/ \E i \in ItemIds, bytes \in 0..FileSize : TransferProgress(i, bytes)
    \/ \E i \in ItemIds, msg \in TransferErrorMessages, quality \in Qualities :
          TransferError(i, msg, quality)
    \/ \E i \in ItemIds : TransferComplete(i)
    \/ \E i \in ItemIds : DownloadURLResolved(i)
    \/ \E i \in ItemIds, msg \in TransferErrorMessages, quality \in Qualities :
          DownloadURLRejected(i, msg, quality)
    \/ \E i \in ItemIds : RetryTimerFire(i)

\* Spec: a manager constructed with autoStart false, any concurrency limit,
\* storage configured or not yet; the network stays online.
Next == CoreNext

InitManual == Init /\ ~autoStart /\ ~enableSmartScheduling

Spec == InitManual /\ [][Next]_vars

\* The callbacks of the transfers, of the download-URL requests and of
\* the timers.
CallbackNext ==
    \/ LoopWakeSlot
    \/ LoopWakeBatch
    \/ \E i \in ItemIds, msg \in TransferErrorMessages, quality \in Qualities :
          TransferError(i, msg, quality)
    \/ \E i \in ItemIds : TransferComplete(i)
    \/ \E i \in ItemIds : DownloadURLResolved(i)
    \/ \E i \in ItemIds, msg \in TransferErrorMessages, quality \in Qualities :
          DownloadURLRejected(i, msg, quality)
    \/ \E i \in ItemIds : RetryTimerFire(i)

InitStorage == InitManual /\ storage

\* SpecConfig: storage configured; submissions of empty and of non-empty
\* files, start, stop, retryFailed,
\* the callbacks, and runtime changes of maxConcurrentUploads.
NextConfig ==
    \/ \E n \in 1..FewItems, size \in FileSizes : AddFew(n, size)
    \/ Start
    \/ Stop
    \/ RetryFailed
    \/ \E value \in 0..(MaxConcurrent + 1) : UpdateConfig(value)
    \/ CallbackNext

SpecConfig == InitStorage /\ [][NextConfig]_vars

\* SpecPause: storage configured; submissions, start, stop, removeFile,
\* pause, resume, connectivity transitions and the callbacks.
NextPause ==
    \/ \E n \in 1..FewItems : AddFew(n, FileSize)
    \/ Start
    \/ Stop
    \/ Pause
    \/ Resume
    \/ GoOffline
    \/ GoOnline
    \/ CallbackNext

SpecPause == InitStorage /\ [][NextPause]_vars

\* SpecLive: storage configured, the network online; files are submitted,
\* processing is started, and from then on only the callbacks run.  Timers
\* fire and every transfer and download-URL request reports back.
NothingStarted == \A i \in ItemIds : items[i].attempts = 0

SubmitBeforeStart(n) ==
    /\ ~isProcessing
    /\ NothingStarted
    /\ AddFiles(n, FileSize)

NextLive ==
    \/ \E n \in 1..FewItems : SubmitBeforeStart(n)
    \/ Start
    \/ CallbackNext

SpecLive == InitStorage /\ [][NextLive]_vars /\ WF_vars(CallbackNext)

\* SpecRetry: storage configured, the network online; submissions of up to
\* MaxItems files, start and the callbacks, so that a retry timer can fire
\* while another item is active and a third one waits in the queue.
NextRetry ==
    \/ \E n \in 1..MaxItems : AddFiles(n, FileSize)
    \/ Start
    \/ CallbackNext

SpecRetry == InitStorage /\ [][NextRetry]_vars

(* ------------------------------ claims --------------------------------- *)
Submitted == 1..created

InQueue(i) == i \in Range(queue)
InFailed(i) == i \in Range(failed)

\* the number of the four collections that hold item i
Holders(i) ==
    (IF InQueue(i) THEN 1 ELSE 0) + (IF i \in active THEN 1 ELSE 0)
    + (IF i \in completed THEN 1 ELSE 0) + (IF InFailed(i) THEN 1 ELSE 0)

\* C1: the active set never holds more items than the current
\* config.maxConcurrentUploads.  Violated under SpecConfig: lowering the
\* limit below the number of active transfers leaves them all active.
C1_ActiveWithinLimit == Cardinality(active) <= maxConcurrentUploads

\* C2: every item submitted and not removed by the caller is in exactly one
\* of queue, active, completed, failed.  Violated under SpecConfig: an item
\* that was active at stop(), or that waits for its retry timer, is in none.
C2_ExactlyOneCollection == \A i \in live : Holders(i) = 1

\* C3: no item is in the queue and in the active set at the same time.
C3_QueueActiveDisjoint == Range(queue) \cap active = {}

\* C3 witness: an item put back by its retry timer (it keeps its error)
\* waits in the queue while another item is active.
C3_Witness ==
    \E i \in ItemIds, j \in ItemIds :
        /\ InQueue(i) /\ items[i].error # NoError /\ items[i].attempts >= 2
        /\ j \in active /\ j # i

\* nothing is scheduled: no _processQueue instance sleeps, no transfer, no
\* download-URL request and no retry timer is outstanding
Quiescent ==
    /\ loopsSlot = 0
    /\ loopsBatch = 0
    /\ \A i \in ItemIds : flow[i] = "none"

Settled(i) == i \in completed \/ InFailed(i)

\* C4: once processing is started (storage configured, network online,
\* every transfer reporting back) every queued item is eventually admitted
\* and reaches completed or failed.  In its finite form: when nothing is
\* scheduled any more, no started manager is left with an unsettled item.
\* Violated under SpecLive: the retry timer puts the item back after the
\* admission loop has returned and cleared isProcessing.
C4_SettledWhenQuiet ==
    (Quiescent /\ ~NothingStarted) => \A i \in Submitted : Settled(i)

\* C4 as a temporal formula, under the fairness of SpecLive
C4_EventuallySettled ==
    [](isProcessing => <>(\A i \in Submitted : Settled(i)))

\* C5: a completed item has uploadedBytes = totalBytes and a download URL.
\* Violated under SpecConfig: the progress of an empty file is 0 / 0, which
\* _updateProgress stores as its uploadedBytes; and the last snapshot of a
\* transfer whose item stop() took out of the active map is dropped.
C5_CompletedIsWhole ==
    \A i \in ItemIds :
        items[i].status = "completed" =>
            /\ items[i].uploadedBytes = items[i].totalBytes
            /\ items[i].downloadURL \notin {NoURL, ""}

\* C6: a failed item has attempts >= 1 and a non-empty error message.
C6_FailedHasAttemptAndError ==
    \A i \in ItemIds :
        items[i].status = "failed" =>
            /\ items[i].attempts >= 1
            /\ items[i].error \notin {NoError, ""}

\* C6 witness: an item failed by _startUpload itself (storage missing), so
\* that _handleUploadError made the only increment of its counter.
C6_Witness ==
    \E i \in ItemIds :
        /\ items[i].status = "failed"
        /\ InFailed(i)
        /\ items[i].attempts = 1
        /\ items[i].error = StartUploadErrorMessage

\* C7: when pause() is followed by stop(), every handle that was active
\* gets cancel exactly once, and no handle gets cancel while it is suspended
\* by a pause that no resume has undone.  Violated under SpecPause: stop()
\* cancels the handles pause() suspended without resuming them.
C7_PauseThenStop ==
    [][(isPaused /\ Stop) =>
          \A i \in active :
              /\ handle'[i].cancels = 1
              /\ ~handle'[i].suspended]_vars

Reset(i) ==
    /\ items'[i].status = "queued"
    /\ items'[i].attempts = 0
    /\ items'[i].error = NoError

Pos(q, i) == IF \E k \in 1..Len(q) : q[k] = i
             THEN CHOOSE k \in 1..Len(q) : q[k] = i
             ELSE 0

\* item i was taken from the queue by _startUpload in this step
Started(i) ==
    /\ i \in Range(queue)
    /\ i \notin Range(queue')
    /\ items'[i].attempts = items[i].attempts + 1

\* C10: after a retryable error the item is put back only when its retry
\* timer fires, and at the front of the queue: the admission pass of the
\* timer callback starts it or starts nothing, and no step starts an item
\* that is behind another in the queue without starting that one too, or
\* changes the order of two queued items.
C10_RetryAtFront ==
    [][/\ \A i \in ItemIds :
            /\ flow[i] = "retryWait" => i \notin Range(queue)
            /\ RetryTimerFire(i) =>
                  /\ \/ queue' = <<i>> \o queue /\ items'[i].status = "queued"
                     \/ /\ i \notin Range(queue')
                        /\ items'[i].attempts = items[i].attempts + 1
                  /\ \A j \in Range(queue) : Started(j) => i \notin Range(queue')
       /\ \A i \in Range(queue), j \in Range(queue) :
            Pos(queue, i) < Pos(queue, j) =>
                /\ Started(j) => i \notin Range(queue')
                /\ (i \in Range(queue') /\ j \in Range(queue')) =>
                      Pos(queue', i) < Pos(queue', j)]_vars

\* C10 witness: while processing with every slot taken, an item put back
\* by its retry timer (status queued, its error kept) is at the head of the
\* queue, in front of an item that has never been started.
C10_Witness ==
    /\ isProcessing
    /\ Cardinality(active) = maxConcurrentUploads
    /\ Len(queue) >= 2
    /\ items[Head(queue)].status = "queued"
    /\ items[Head(queue)].error # NoError
    /\ items[Head(queue)].attempts >= 1
    /\ items[queue[2]].attempts = 0

\* SpecSchedule: storage configured, smart scheduling enabled or not at
\* construction; submissions of small and large files with a priority
\* option, start and the callbacks.
InitSchedule == Init /\ ~autoStart /\ storage

SubmitWithOptions(n, size, priority) ==
    /\ created + n <= FewItems
    /\ AddFilesWithPriority(n, size, priority)

NextSchedule ==
    \/ \E n \in 1..FewItems, size \in {FileSize, LargeFileSize},
          priority \in Priorities : SubmitWithOptions(n, size, priority)
    \/ Start
    \/ CallbackNext

SpecSchedule == InitSchedule /\ [][NextSchedule]_vars

\* SpecLazy: storage configured; submissions of small sets and of sets of
\* more than 100 files, start and the callbacks; every callback that is due
\* eventually runs.
NextLazy ==
    \/ \E n \in 1..FewItems : AddFew(n, FileSize)
    \/ \E n \in LargeSetSizes : AddLargeSet(n, FileSize)
    \/ Start
    \/ CallbackNext

SpecLazy == InitStorage /\ [][NextLazy]_vars /\ WF_vars(CallbackNext)

\* a manager nothing has been submitted to, in one configuration
ManagerIdle ==
    /\ ManagerInit
    /\ ~autoStart /\ ~enableSmartScheduling
    /\ storage /\ maxConcurrentUploads = MinConcurrentUploads

\* SpecConstruct: one construction of the manager, with any values of the
\* options maxConcurrentUploads, retryAttempts and autoStart. A
\* construction that throws leaves no manager; the variables then keep the
\* values drawn for them.
InitConstruct ==
    /\ ManagerIdle
    /\ resumer = ResumerInit
    /\ dispatch = DispatchInit
    /\ throttle = ThrottleInit
    /\ call \in ConstructCalls

Construct ==
    /\ call.fn = "construct"
    /\ ~call.done
    /\ LET configResult == validateConfig(call.options)
       IN /\ call' = [call EXCEPT !.done = TRUE,
                                  !.thrown = ~configResult.valid,
                                  !.errors = configResult.errors,
                                  !.warnings = configResult.warnings,
                                  !.config = IF configResult.valid
                                             THEN <<configResult.sanitized>>
                                             ELSE <<>>]
          /\ CommitManager(
                IF configResult.valid
                THEN [Cur EXCEPT
                        !.maxConcurrentUploads =
                            configResult.sanitized.maxConcurrentUploads,
                        !.autoStart = configResult.sanitized.autoStart,
                        !.enableSmartScheduling =
                            configResult.sanitized.enableSmartScheduling]
                ELSE Cur)
    /\ UNCHANGED <<live, resumer, throttle, dispatch>>

NextConstruct == Construct

SpecConstruct == InitConstruct /\ [][NextConstruct]_vars

\* SpecResumer: the calls on one UploadResumer for up to MaxResumerFiles
\* files, in any interleaving of their awaits; every suspended call
\* eventually continues.
InitResumer ==
    /\ ManagerIdle
    /\ call = NoCall
    /\ resumer = ResumerInit
    /\ dispatch = DispatchInit
    /\ throttle = ThrottleInit

ResumerContinues ==
    \/ \E c \in resumer.pending : UploadFunctionResolves(c)
    \/ \E c \in resumer.pending : UploadFunctionRejects(c)
    \/ \E c \in resumer.pending : SaveContinues(c)
    \/ \E c \in resumer.pending : RemoveContinues(c)
    \/ \E c \in resumer.pending : CleanupContinues(c)

NextResumer ==
    \/ \E f \in ResumerFiles, size \in ResumerFileSizes :
          CreateResumableUpload(f, size)
    \/ \E f \in ResumerFiles, k \in ResumerChunks : UploadChunk(f, k)
    \/ \E f \in ResumerFiles : RemoveUploadState(f)
    \/ CleanupCompletedUploads
    \/ ResumerContinues

SpecResumer == InitResumer /\ [][NextResumer]_vars /\ WF_vars(ResumerContinues)

\* SpecChunks: one call of createChunks, with any file size and chunk size.
InitChunks ==
    /\ ManagerIdle
    /\ resumer = ResumerInit
    /\ dispatch = DispatchInit
    /\ throttle = ThrottleInit
    /\ call \in ChunkCalls

CreateChunksCall ==
    /\ call.fn = "createChunks"
    /\ ~call.done
    /\ call' = [call EXCEPT !.done = TRUE,
                            !.chunks = createChunks(call.fileSize, call.chunkSize)]
    /\ UNCHANGED <<managerVars, resumer, throttle, dispatch>>

NextChunks == CreateChunksCall

SpecChunks == InitChunks /\ [][NextChunks]_vars

\* SpecThrottle: a BandwidthManager with the default cap; requests, usage
\* samples, pause and resume; every timer that is set eventually fires.
InitThrottle ==
    /\ ManagerIdle
    /\ call = NoCall
    /\ resumer = ResumerInit
    /\ dispatch = DispatchInit
    /\ throttle = ThrottleManager(FALSE)

ThrottleTimers ==
    \/ CheckTimerFires
    \/ SubtractTimerFires

NextThrottle ==
    \/ ThrottleUpload
    \/ \E sample \in BandwidthSamples : UpdateBandwidthUsage(sample)
    \/ PauseThrottle
    \/ ResumeThrottle
    \/ ThrottleTimers

SpecThrottle == InitThrottle /\ [][NextThrottle]_vars /\ WF_vars(ThrottleTimers)

\* SpecAdaptive: a BandwidthManager, adaptive or not, with the default cap;
\* usage samples and calls of adjustBandwidth.
InitAdaptive ==
    /\ ManagerIdle
    /\ call = NoCall
    /\ resumer = ResumerInit
    /\ dispatch = DispatchInit
    /\ \E adaptive \in BOOLEAN : throttle = ThrottleManager(adaptive)

NextAdaptive ==
    \/ \E sample \in BandwidthSamples : UpdateBandwidthUsage(sample)
    \/ AdjustBandwidth

SpecAdaptive == InitAdaptive /\ [][NextAdaptive]_vars

\* SpecAutoStart: storage configured, the manager constructed with autoStart
\* true or false; submissions with the option autoStart given, start and
\* the callbacks.
InitAutoStart == Init /\ storage /\ ~enableSmartScheduling

\* addFiles(files, {autoStart: optionAutoStart}): the spread ...options
\* copies the option to the items, where nothing reads it; the test before
\* this.start() reads this.config.autoStart
AddFilesWithAutoStart(n, optionAutoStart) ==
    /\ created + n <= FewItems
    /\ optionAutoStart \in BOOLEAN
    /\ AddFiles(n, FileSize)

NextAutoStart ==
    \/ \E n \in 1..FewItems, optionAutoStart \in BOOLEAN :
          AddFilesWithAutoStart(n, optionAutoStart)
    \/ Start
    \/ CallbackNext

SpecAutoStart == InitAutoStart /\ [][NextAutoStart]_vars

\* SpecDestroy: storage configured; submissions, start and the callbacks,
\* then destroy(); after destroy() the caller does nothing more and only
\* what the manager had scheduled runs.
Destroyed == dispatch = NullPluginSystem

SubmitBeforeDestroy(n) ==
    /\ ~Destroyed
    /\ AddFew(n, FileSize)

StartBeforeDestroy ==
    /\ ~Destroyed
    /\ Start

NextDestroy ==
    \/ \E n \in 1..FewItems : SubmitBeforeDestroy(n)
    \/ StartBeforeDestroy
    \/ Destroy
    \/ CallbackNext
    \/ \E i \in ItemIds, quality \in Qualities : TransferCompleteNoStorage(i, quality)

SpecDestroy == InitStorage /\ [][NextDestroy]_vars

\* SpecSmart: storage configured, the manager constructed with smart
\* scheduling on or off; submissions of small and large files, start, stop
\* and calls of setSmartScheduling.
InitSmart == Init /\ ~autoStart /\ storage

NextSmart ==
    \/ \E n \in 1..FewItems, size \in {FileSize, LargeFileSize} : AddFew(n, size)
    \/ Start
    \/ Stop
    \/ \E enabled \in BOOLEAN : SetSmartScheduling(enabled)

SpecSmart == InitSmart /\ [][NextSmart]_vars

\* SpecDispatch: plugins are registered, enabled and disabled on a
\* PluginSystem of either class, then one emitEvent or executePipeline runs
\* over them; a hook that settles and a timer that was armed do so in the
\* end.
InitDispatch ==
    /\ ManagerIdle
    /\ call = NoCall
    /\ resumer = ResumerInit
    /\ throttle = ThrottleInit
    /\ \E timeBoxed \in BOOLEAN : dispatch = PluginSystemOf(timeBoxed)

NextDispatch ==
    \/ \E p \in Plugins : RegisterPlugin(p)
    \/ \E p \in Plugins : SetPluginEnabled(p)
    \/ EmitEvent
    \/ ExecutePipeline
    \/ HookSettles
    \/ HookTimesOut
    \/ OnErrorSettles

SpecDispatch == InitDispatch /\ [][NextDispatch]_vars /\ WF_vars(DispatchContinues)

\* SpecNetwork: one call of NetworkManager.shouldRetry or of
\* NetworkManager.calculateRetryDelay, with any arguments, connectivity,
\* network quality and jitter.
InitNetwork ==
    /\ ManagerIdle
    /\ resumer = ResumerInit
    /\ dispatch = DispatchInit
    /\ throttle = ThrottleInit
    /\ call \in NetworkCalls

ShouldRetryCall ==
    /\ call.fn = "shouldRetry"
    /\ ~call.done
    /\ call' = [call EXCEPT !.done = TRUE,
                            !.retry = shouldRetry(call.attempts, call.msg,
                                                  call.online, call.quality)]
    /\ UNCHANGED <<managerVars, resumer, throttle, dispatch>>

CalculateRetryDelayCall ==
    /\ call.fn = "calculateRetryDelay"
    /\ ~call.done
    /\ call' = [call EXCEPT
                   !.done = TRUE,
                   !.delay = calculateRetryDelay(call.attempts, call.quality,
                                                 call.jitterAmount),
                   !.delayNext = calculateRetryDelay(call.attempts + 1, call.quality,
                                                     call.jitterAmount)]
    /\ UNCHANGED <<managerVars, resumer, throttle, dispatch>>

NextNetwork ==
    \/ ShouldRetryCall
    \/ CalculateRetryDelayCall

SpecNetwork == InitNetwork /\ [][NextNetwork]_vars

\* some observer reports an error of message msg for item i in this step
ErrorReported(i, msg) ==
    \E quality \in Qualities :
        \/ TransferError(i, msg, quality)
        \/ DownloadURLRejected(i, msg, quality)

\* C11: an error of a retryable class puts the item in the failed set (and
\* counts it in failureCount) only when its attempts are exhausted; an
\* error of a non-retryable class puts it there in the same step.
\* Violated under SpecPause: while the monitor is offline shouldRetry is
\* false, and the first retryable error fails the item for good.
C11_RetryAbsorbsErrors ==
    [][\A i \in ItemIds :
          /\ \A msg \in RetryableMessages :
                (ErrorReported(i, msg) /\ ~InFailed(i)) =>
                    \/ /\ i \notin Range(failed')
                       /\ failureCount' = failureCount
                    \/ items'[i].attempts >= RetryAttempts
          /\ \A msg \in NonRetryableMessages :
                (ErrorReported(i, msg) /\ ~InFailed(i)) =>
                    /\ i \in Range(failed')
                    /\ items'[i].status = "failed"
                    /\ failureCount' = failureCount + 1]_vars

\* C12: shouldRetry(attempts, error) is false if attempts >= maxAttempts,
\* or the monitor is offline, or the message is of a non-retryable class;
\* otherwise true if the message is of a known-retryable class; otherwise
\* true exactly when the network quality is good or excellent.
C12_ShouldRetryTable ==
    (call.fn = "shouldRetry" /\ call.done /\ call.msg # NoError) =>
        call.retry =
            IF \/ call.attempts >= RetryAttempts
               \/ ~call.online
               \/ \E t \in nonRetryableErrors : t \in MessageTokens(call.msg)
            THEN FALSE
            ELSE IF \E t \in retryableErrors : t \in MessageTokens(call.msg)
            THEN TRUE
            ELSE call.quality \in {"good", "excellent"}

\* C12 witness: an unclassified error, online, attempts left, on a poor
\* network: not retried.
C12_Witness ==
    /\ call.fn = "shouldRetry" /\ call.done
    /\ call.msg = "storage/canceled" /\ call.online
    /\ call.attempts < RetryAttempts /\ call.quality = "poor"
    /\ ~call.retry

\* C13: without jitter and for a fixed quality the delay of attempt a is
\* at most the delay of attempt a + 1, and every delay is at most the
\* configured maximum delay.
C13_RetryDelayMonotoneAndCapped ==
    (call.fn = "calculateRetryDelay" /\ call.done) =>
        /\ call.delay <= 10 * MaxDelay
        /\ call.jitterAmount = 0 => call.delay <= call.delayNext

\* C13 witness: a delay below the cap followed by a capped one.
C13_Witness ==
    /\ call.fn = "calculateRetryDelay" /\ call.done
    /\ call.jitterAmount = 0
    /\ call.delay < call.delayNext
    /\ call.delayNext = 10 * MaxDelay

Small(i) == items[i].totalBytes < SmallThreshold

\* item i comes strictly before item j in quick-wins order: small before
\* not small, then higher priority, then earlier creation (ids are handed
\* out in creation order), then smaller size
QuickWinsBefore(i, j) ==
    \/ Small(i) /\ ~Small(j)
    \/ /\ Small(i) = Small(j)
       /\ \/ items[i].priority > items[j].priority
          \/ /\ items[i].priority = items[j].priority
             /\ i < j

\* C14: with smart scheduling enabled no item is admitted while an item
\* that comes before it in quick-wins order is left waiting in the queue.
\* Violated under SpecSchedule: _processQueue takes the head of the queue
\* whatever config.enableSmartScheduling is.
C14_QuickWinsOrder ==
    [][enableSmartScheduling =>
          \A i \in Range(queue), j \in Range(queue) :
              (Started(j) /\ i \in Range(queue')) => ~QuickWinsBefore(i, j)]_vars

\* C15: with smart scheduling disabled no item is admitted while an item
\* of strictly higher priority is left waiting in the queue, and of two
\* items of equal priority the one queued in front is admitted first.
\* Violated under SpecSchedule: item.priority is stored and never read.
C15_PriorityOrder ==
    [][~enableSmartScheduling =>
          \A i \in Range(queue), j \in Range(queue) :
              (Started(j) /\ i \in Range(queue')) =>
                  /\ items[i].priority <= items[j].priority
                  /\ items[i].priority = items[j].priority =>
                        Pos(queue, j) < Pos(queue, i)]_vars

\* C16: removing a completed item that has a download URL, with storage
\* configured, requests the deletion of its stored object.
\* Violated under Spec: removeFile looks the item up in this.completed
\* after deleting it from there, so deleteObject is never called.
C16_RemoveDeletesStored ==
    [][\A i \in ItemIds :
          ( /\ RemoveFile(i)
            /\ i \in completed
            /\ items[i].downloadURL \notin {NoURL, ""}
            /\ storage )
          => i \in deleteRequests']_vars

\* C17: going offline suspends every transfer handle and records its id
\* in the paused set; coming back online resumes every handle recorded
\* there, empties the paused set and runs the admission loop: when the
\* manager is processing and has free slots, the items at the head of the
\* queue are taken.
C17_OfflinePausesOnlineResumes ==
    [][/\ GoOffline =>
            /\ isPaused'
            /\ \A i \in uploadTasks : handle'[i].suspended /\ i \in paused'
       /\ GoOnline =>
            /\ ~isPaused'
            /\ \A i \in paused \cap uploadTasks : ~handle'[i].suspended
            /\ paused' = {}
            /\ LET availableSlots == maxConcurrentUploads - Cardinality(active)
               IN (isProcessing /\ availableSlots > 0) =>
                     queue' = SubSeq(queue,
                                     Min(availableSlots, Len(queue)) + 1,
                                     Len(queue))]_vars

\* the connection is down and a running transfer was suspended by it
C17_Witness ==
    /\ ~isOnline
    /\ isPaused
    /\ \E i \in paused \cap active :
          i \in uploadTasks /\ handle[i].suspended

\* the status changes the state machine of an item allows in one step of
\* the manager: its single transitions, and failed -> queued -> uploading
\* when the retry timer re-queues the item and admits it at once
AllowedStatusChange ==
    { <<"queued", "uploading">>,
      <<"uploading", "completed">>, <<"uploading", "failed">>,
      <<"uploading", "paused">>, <<"paused", "uploading">>,
      <<"failed", "queued">>, <<"failed", "uploading">> }

UnprocessedBatch == \E k \in 1..Len(batches) : ~batches[k].processed

\* C19: once processing is started, the files of every batch of a large
\* set are eventually expanded into the queue.
\* Violated under SpecLazy: nothing in the manager calls getNextBatch or
\* processBatch, so a batch stays unprocessed for ever.
C19_BatchesExpanded ==
    (isProcessing /\ UnprocessedBatch) ~> ~UnprocessedBatch

\* C20: a call of addFiles with n files of size bytes each adds exactly n
\* to totalFiles and n * size to totalSize, on both paths.
\* Violated under SpecLazy: the large-set path adds the memory manager's
\* running pending totals, which still hold the files of earlier large sets.
C20_TotalsGrowByCall ==
    [][/\ \A n \in 1..FewItems :
             AddFew(n, FileSize) =>
                 /\ totalFiles' = totalFiles + n
                 /\ totalSize' = totalSize + n * FileSize
       /\ \A n \in LargeSetSizes :
             AddLargeSet(n, FileSize) =>
                 /\ totalFiles' = totalFiles + n
                 /\ totalSize' = totalSize + n * FileSize]_vars

\* a finite number, the only kind of value the range check is about
FiniteNumber(v) == v.type = "number" /\ v.finite

\* the allowed range of a numeric option
OptionRange(f) ==
    IF f = "maxConcurrentUploads"
    THEN [min |-> MinConcurrentUploads, max |-> MaxConcurrentUploadsLimit]
    ELSE [min |-> MinRetryAttempts, max |-> MaxRetryAttempts]

NumericOptions == {"maxConcurrentUploads", "retryAttempts"}

RECURSIVE UploadedSpan(_)
UploadedSpan(chunks) ==
    IF chunks = <<>> THEN 0
    ELSE (IF Head(chunks).uploaded THEN Head(chunks).end - Head(chunks).start
          ELSE 0) + UploadedSpan(Tail(chunks))

\* C22: the uploadedBytes of every resumable state is the sum of end - start
\* over its chunks marked uploaded.
\* Violated under SpecResumer: uploadChunk adds end - start whenever
\* uploadFunction resolves, also for a chunk that is already marked.
C22_BytesMatchFlags ==
    \A f \in ResumerFiles :
        resumer.states[f] # NoState =>
            resumer.states[f].uploadedBytes = UploadedSpan(resumer.states[f].chunks)

StoredIds == {st.fileId : st \in Range(resumer.store)}

\* C23: when no write to the store is in flight, the store holds a record
\* for every file a state was created for and removeUploadState was never
\* called for.
\* Violated under SpecResumer: saveUploadState and removeUploadState write
\* back the array they read before their await.
C23_NoLostSave ==
    (\A c \in resumer.pending : c.op = "uploadChunk") =>
        \A f \in ResumerFiles :
            (resumer.states[f] # NoState /\ f \notin resumer.removed) =>
                f \in StoredIds

\* C24: createChunks gives ceil(fileSize / chunkSize) chunks with indexes
\* 0, 1, 2, ..., the first starting at 0, each starting where the one
\* before ends, each non-empty and at most chunkSize long, the last ending
\* at fileSize.
C24_ChunksPartitionFile ==
    (call.fn = "createChunks" /\ call.done) =>
        LET S == call.fileSize
            C == call.chunkSize
            chunks == call.chunks
            n == Len(chunks)
        IN /\ n = (S + C - 1) \div C
           /\ \A k \in 1..n :
                 /\ chunks[k].index = k - 1
                 /\ chunks[k].start = (IF k = 1 THEN 0 ELSE chunks[k - 1].end)
                 /\ chunks[k].end > chunks[k].start
                 /\ chunks[k].end - chunks[k].start <= C
                 /\ ~chunks[k].uploaded
           /\ n > 0 => chunks[n].end = S

\* a file cut into several chunks, the last one shorter
C24_Witness ==
    /\ call.fn = "createChunks" /\ call.done
    /\ Len(call.chunks) > 2
    /\ LET last == call.chunks[Len(call.chunks)]
       IN last.end - last.start < call.chunkSize

\* C25: once the uploadedBytes of a file reach its size, its record leaves
\* the store, and canResume never returns a complete state.
\* Violated under SpecResumer: uploadChunk saves the complete state and
\* only cleanupCompletedUploads, which uploadChunk does not call, removes it.
C25_CompleteStateRemoved ==
    /\ \A f \in ResumerFiles :
          (resumer.states[f] # NoState /\ isUploadComplete(resumer.states[f]))
              ~> (f \notin StoredIds)
    /\ [](\A f \in ResumerFiles :
            resumer.states[f] # NoState =>
                \A st \in canResume(resumer, f) : ~isUploadComplete(st))

\* isWithinLimits(): the current bandwidth is at most the cap
isWithinLimits == throttle.currentBandwidth <= throttle.maxBandwidth

\* C26: every request queued by throttleUpload is released once there is
\* headroom: a queued request is eventually released or the usage goes
\* over the cap.
\* Violated under SpecThrottle: a check releases a request only when
\* throttleInfo.bytesPerSecond, which updateBandwidthUsage sets to the
\* reported rate, is at most the cap times the interval; and after pause()
\* the checks stop.
C26_QueuedIsReleased ==
    \A id \in 1..MaxThrottleRequests :
        (id \in Range(throttle.uploadQueue) /\ isWithinLimits)
            ~> (id \in throttle.released \/ ~isWithinLimits)

\* C27: in adaptive mode the cap stays between half and twice the
\* configured cap.
\* Violated under SpecAdaptive: the bounds adjustBandwidth applies are twice
\* and half the current cap, not the configured one.
C27_CapWithinFactorTwo ==
    throttle.adaptiveBandwidth =>
        /\ throttle.maxBandwidth <= 2 * OriginalCap
        /\ 2 * throttle.maxBandwidth >= OriginalCap

\* the plugins whose hook a dispatch has to call: registered, enabled and
\* implementing the hook
EnabledImplementers ==
    {p \in Plugins : /\ dispatch.plugins[p].registered
                     /\ dispatch.plugins[p].enabled
                     /\ dispatch.plugins[p].hook # "none"}

\* the hooks were called highest priority first, each plugin once
CalledInPriorityOrder ==
    /\ \A i, j \in 1..Len(dispatch.run.invoked) :
          i < j => /\ dispatch.run.invoked[i] # dispatch.run.invoked[j]
                   /\ dispatch.plugins[dispatch.run.invoked[i]].priority
                        >= dispatch.plugins[dispatch.run.invoked[j]].priority

RECURSIVE Threaded(_, _)
Threaded(seq, v) ==
    IF seq = <<>> THEN v
    ELSE Threaded(Tail(seq),
                  IF dispatch.plugins[Head(seq)].hook \in {"async", "sync"}
                  THEN Transform(Head(seq), v) ELSE v)

\* C29: once executePipeline has resolved, the hook of every enabled plugin
\* that implements it was called, highest priority first, each with the
\* value the hooks before it produced, and the result is the value after
\* the last hook; a hook that throws or returns undefined leaves the value
\* as it is.
\* Violated under SpecDispatch: executePipeline of the PluginSystem in
\* network-manager.svelte.ts drops the value of a hook that returns it
\* without a promise.
C29_PipelineThreadsValue ==
    (dispatch.run.mode = "executePipeline" /\ dispatch.run.outcome = "resolved") =>
        /\ Range(dispatch.run.invoked) = EnabledImplementers
        /\ CalledInPriorityOrder
        /\ \A i \in 1..Len(dispatch.run.invoked) :
              dispatch.run.received[i] =
                  Threaded(SubSeq(dispatch.run.invoked, 1, i - 1),
                           dispatch.run.initialValue)
        /\ dispatch.run.result =
              Threaded(dispatch.run.invoked, dispatch.run.initialValue)

\* C30: a dispatch that has started completes, whatever the hooks do: a
\* hook that never settles is given up after the timeout.
\* Violated under SpecDispatch: the PluginSystem of plugin-system.svelte.ts,
\* the one the manager imports, awaits the hook with no timeout.
C30_DispatchCompletes ==
    (dispatch.run.outcome = "pending") ~> (dispatch.run.outcome = "resolved")

\* C31: addFiles(files, {autoStart: true}) on a manager that is not
\* processing starts processing, whatever autoStart the manager was
\* constructed with.
\* Violated under SpecAutoStart: addFiles tests this.config.autoStart and
\* never reads options.autoStart.
C31_AutoStartOptionStarts ==
    [][(~isProcessing /\ \E n \in 1..FewItems : AddFilesWithAutoStart(n, TRUE))
          => isProcessing']_vars

\* C32: an item the caller removed is never again in the queue, the active
\* set, the completed set or the failed set, whatever callbacks of its
\* cancelled transfer and whatever retry timers arrive later.
\* Violated under Spec: removeFile cancels the transfer and forgets the
\* item, but the error callback of the cancelled transfer runs
\* _handleUploadError, which puts the item into the failed map or arms a
\* retry timer; and removeFile does not clear a retry timer that is pending.
C32_RemovedStaysGone ==
    \A i \in Submitted \ live : Holders(i) = 0

\* C33: when processing is on, the queue and the active set are empty and
\* no retry timer is pending, isProcessing eventually becomes false.
\* Violated under SpecLive: the admission loop returns while the last item
\* is still active; when that item then fails for good,
\* _handleUploadError does not call _processQueue, and nothing is left to
\* clear isProcessing.
C33_IdleWhenDrained ==
    (/\ isProcessing
     /\ queue = <<>>
     /\ active = {}
     /\ \A i \in ItemIds : flow[i] # "retryWait")
        ~> ~isProcessing

\* C34: while isPaused stays true no item is admitted to the active set.
\* Violated under SpecPause: _processQueue tests isProcessing and never
\* isPaused, so a sleeping admission loop, a completion callback or a
\* retry timer admits queued items during a pause.
C34_NoAdmissionWhilePaused ==
    [][(isPaused /\ isPaused') => active' \subseteq active]_vars

\* C35: after destroy() the queue, the active, completed and failed maps
\* and the paused set stay empty, whatever timers and callbacks of the
\* manager are still due.
\* Violated under SpecDestroy: the retry delay of _handleUploadError is a
\* bare setTimeout that _clearAllTimers does not know, and the observers
\* of the cancelled transfers still call _handleUploadError.
C35_EmptyAfterDestroy ==
    Destroyed =>
        /\ queue = <<>>
        /\ active = {}
        /\ completed = {}
        /\ failed = <<>>
        /\ paused = {}

\* C36: every id with a stored transfer handle is in the active set: the
\* handle of an item is released in the step in which the item leaves the
\* active set by completion, failure, stop() or removeFile().
C36_HandlesOnlyForActive == uploadTasks \subseteq active

\* an item has completed and left the active set while another item is
\* active with its handle stored
C36_Witness ==
    \E i \in completed, j \in uploadTasks :
        /\ i \notin active
        /\ i \notin uploadTasks
        /\ j \in active

\* C37: failureCount is the number of items in the failed map and
\* successCount the number of items in the completed map.
\* Violated under Spec: removeFile deletes the item from the failed and
\* completed maps and leaves the counters as they are.
C37_CountersMatchMaps ==
    /\ failureCount = Len(failed)
    /\ successCount = Cardinality(completed)

\* C38: the paused set holds only ids of items that are in the active set.
\* Violated under SpecPause: _handleUploadError and _handleUploadComplete
\* delete the item from the active map and from _uploadTasks, not from the
\* paused set.
C38_PausedAreActive == paused \subseteq active

\* C39: the attempt counter counts the transfers started for the item, so
\* an item that is in the failed map with a retryable error (the network
\* being online, it was given up for its attempts alone) has
\* attempts = retryAttempts.
\* Violated under SpecRetry: _startUpload and _handleUploadError both
\* increment attempts, so the item is given up after its second transfer
\* with attempts = 4.
C39_AttemptsCountTransfers ==
    \A i \in Range(failed) :
        (isOnline /\ items[i].error \in RetryableMessages)
            => items[i].attempts = RetryAttempts

\* C40: setSmartScheduling(b) does not throw and afterwards
\* isSmartSchedulingEnabled() is b.
\* Violated under SpecSmart: the validator has no constraint entry for
\* enableSmartScheduling, so updateConfig refuses the change and
\* setSmartScheduling throws, for both values.
C40_SetSmartSchedulingTakesEffect ==
    call.fn = "setSmartScheduling" =>
        /\ ~call.thrown
        /\ enableSmartScheduling = call.enabled

====
